---- MODULE Spec2Model ----
(***************************************************************************)
(* Model of the validation / normalisation layer of the signatures        *)
(* library: the algorithm adapters (ed25519, secp256k1, p256, p384, p521,  *)
(* bls12_381, dilithium65, sphincs192, sphincs256, kyber1024, ecdh) and    *)
(* the format utilities they call.  A state is the record of a caller's    *)
(* session with one adapter: the last generateKeyPair call, the last sign  *)
(* call and the last call of any operation, each with its arguments and    *)
(* its outcome (value returned, error thrown, promise, provider calls,     *)
(* use of the random source).                                              *)
(*                                                                         *)
(* Byte buffers are either concrete (<<"bytes", seq>>) or symbolic results *)
(* of the external primitive provider (<<"pk", alg, seed>>, <<"sk", ...>>, *)
(* <<"sig", alg, key, msg>>, <<"flip", c>> for a buffer with one byte      *)
(* changed).                                                               *)
(***************************************************************************)
EXTENDS Integers, Sequences, FiniteSets, TLC

\* Bound: buffers handed in by the caller are filled with a byte 0..MaxFill.
MaxFill == 1

\* Bound: the strings handed to the format utilities have up to MaxLen
\* characters (besides a few fixed longer ones).
MaxLen == 3

\* The calls in flight when several callers use the adapters concurrently:
\* for each caller, where its call stands (see Invoke / Resume / Collect).
VARIABLE inflight

(***************************************************************************)
(* JavaScript values                                                       *)
(***************************************************************************)
Undefined == [t |-> "undefined"]
Null == [t |-> "null"]
Num(n) == [t |-> "number", n |-> n]
Arr(n) == [t |-> "array", len |-> n]
Str(s) == [t |-> "string", len |-> Len(s), s |-> s]
\* A plain object with `keys` own keys whose JSON text is `json`.
Obj(keys, json) == [t |-> "object", keys |-> keys, json |-> json]
U8(n, c) == [t |-> "u8", len |-> n, c |-> c]
Bytes(b) == U8(Len(b), <<"bytes", b>>)
Fill(n, b) == Bytes([i \in 1..n |-> b])
Bool(b) == [t |-> "boolean", b |-> b]
\* An object that is not a plain one: an instance of class `class` (typeof
\* gives 'object', Array.isArray gives false).
Inst(class, keys, json) == [t |-> "object", keys |-> keys, json |-> json, class |-> class]

\* obj.field of JavaScript: undefined when the property is absent.
Get(v, f) == IF f \in DOMAIN v THEN v[f] ELSE Undefined

\* value.length as the adapters read it (strings and arrays have one too).
LengthOf(v) == IF "len" \in DOMAIN v THEN v.len ELSE -1

isUint8Array(v) == v.t = "u8"

HexChars == {"0", "1", "2", "3", "4", "5", "6", "7", "8", "9",
             "a", "b", "c", "d", "e", "f", "A", "B", "C", "D", "E", "F"}

HexVal(ch) ==
    CASE ch = "0" -> 0 [] ch = "1" -> 1 [] ch = "2" -> 2 [] ch = "3" -> 3
      [] ch = "4" -> 4 [] ch = "5" -> 5 [] ch = "6" -> 6 [] ch = "7" -> 7
      [] ch = "8" -> 8 [] ch = "9" -> 9
      [] ch \in {"a", "A"} -> 10 [] ch \in {"b", "B"} -> 11
      [] ch \in {"c", "C"} -> 12 [] ch \in {"d", "D"} -> 13
      [] ch \in {"e", "E"} -> 14 [] ch \in {"f", "F"} -> 15

\* UTF-8 code of the (ASCII) characters the model's strings are made of.
CharCode(ch) ==
    CASE ch = "0" -> 48 [] ch = "1" -> 49 [] ch = "\"" -> 34 [] ch = ":" -> 58
      [] ch = "{" -> 123 [] ch = "}" -> 125
      [] ch = "a" -> 97 [] ch = "c" -> 99 [] ch = "d" -> 100 [] ch = "e" -> 101
      [] ch = "F" -> 70
      [] ch = "f" -> 102 [] ch = "g" -> 103 [] ch = "i" -> 105 [] ch = "l" -> 108
      [] ch = "n" -> 110 [] ch = "s" -> 115 [] ch = "t" -> 116 [] ch = "v" -> 118

isHexString(v) ==
    /\ v.t = "string"
    /\ v.len % 2 = 0
    /\ \A i \in 1..v.len : v.s[i] \in HexChars

\* hex.js fromHex on a string that passed isHexString.
fromHex(s) ==
    Bytes([i \in 1..(Len(s) \div 2) |-> 16 * HexVal(s[2 * i - 1]) + HexVal(s[2 * i])])

\* new TextEncoder().encode(s)
Utf8Encode(s) == Bytes([i \in 1..Len(s) |-> CharCode(s[i])])

(***************************************************************************)
(* Outcomes of a call                                                      *)
(***************************************************************************)
FormatMsg == "Message must be a string, Uint8Array, or JSON object"

Err(cls, arg, msg) == [cls |-> cls, arg |-> arg, msg |-> msg]
NoErr == Err("", "", "")

\* kind: "return" | "throw".  calls: the provider functions invoked, in
\* order, each with the arguments handed to it.  rng: the host's secure
\* random source was consulted.
Return(v, calls, rng) ==
    [kind |-> "return", val |-> v, err |-> NoErr, calls |-> calls, rng |-> rng]
Throw(e, calls, rng) ==
    [kind |-> "throw", val |-> Undefined, err |-> e, calls |-> calls, rng |-> rng]
TypeErr(arg, msg) == Throw(Err("TypeMismatch", arg, msg), <<>>, FALSE)
LenErr(arg, msg) == Throw(Err("LengthMismatch", arg, msg), <<>>, FALSE)
FormatErr == Throw(Err("FormatError", "message", FormatMsg), <<>>, FALSE)

(***************************************************************************)
(* utils/format.js                                                         *)
(***************************************************************************)
\* A formatMessage that hex-decodes every string of hex digits, whatever
\* its length.
formatMessageLenient(message) ==
    IF message.t = "u8" THEN Return(message, <<>>, FALSE)
    ELSE IF message.t = "string"
         THEN IF \A i \in 1..message.len : message.s[i] \in HexChars
              THEN Return(fromHex(message.s), <<>>, FALSE)
              ELSE Return(Utf8Encode(message.s), <<>>, FALSE)
    ELSE IF message.t = "object"
         THEN IF message.json = <<>> THEN FormatErr
              ELSE Return(Utf8Encode(message.json), <<>>, FALSE)
    ELSE FormatErr

formatMessage(message) ==
    IF message.t = "u8" THEN Return(message, <<>>, FALSE)
    ELSE IF message.t = "string"
         THEN IF isHexString(message)
              THEN Return(fromHex(message.s), <<>>, FALSE)
              ELSE Return(Utf8Encode(message.s), <<>>, FALSE)
    ELSE IF message.t = "object"
         THEN IF message.json = <<>>      \* JSON.stringify throws
              THEN FormatErr
              ELSE Return(Utf8Encode(message.json), <<>>, FALSE)
    ELSE FormatErr

HashLenErr == Throw(Err("LengthMismatch", "messageHash", "Message hash must be 32 bytes"),
                    <<>>, FALSE)

\* A formatMessageHash that normalizes with formatMessage and then checks
\* the length.
formatMessageHashNormalizing(messageHash) ==
    LET o == formatMessage(messageHash)
    IN IF o.kind = "throw" THEN o
       ELSE IF o.val.len # 32 THEN HashLenErr ELSE o

formatMessageHash(messageHash) ==
    IF messageHash.t = "u8"
    THEN IF messageHash.len # 32 THEN HashLenErr ELSE Return(messageHash, <<>>, FALSE)
    ELSE IF messageHash.t # "string" THEN FormatErr
    ELSE IF ~isHexString(messageHash) THEN FormatErr
    ELSE LET bytes == fromHex(messageHash.s)
         IN IF bytes.len # 32 THEN HashLenErr ELSE Return(bytes, <<>>, FALSE)

\* An outcome followed by a second step that uses its value: a throw
\* propagates, provider calls and random draws accumulate.
Bind(o, F(_)) ==
    IF o.kind = "throw" THEN o
    ELSE LET r == F(o.val)
         IN [r EXCEPT !.calls = o.calls \o r.calls, !.rng = o.rng \/ r.rng]

\* What the caller of an async function gets: a promise, settled with the
\* outcome of the function body.
Async(o) == [kind |-> "promise", settled |-> o, val |-> [t |-> "promise"],
             err |-> NoErr, calls |-> o.calls, rng |-> o.rng]

\* `await x`: the value a promise resolves with (or its rejection thrown);
\* any other value as it is.
Await(o) == IF o.kind = "promise" THEN o.settled ELSE o

(***************************************************************************)
(* The external primitive providers (@noble/curves, @noble/post-quantum),  *)
(* modelled symbolically: a public key is <<"pk", alg, seed>>, an expanded *)
(* secret key <<"sk", alg, seed>>, a signature <<"sig", alg, key, msg>>.   *)
(***************************************************************************)
Classic == {"ed25519", "secp256k1", "p256", "p384", "p521", "bls12_381", "x25519"}
Weierstrass == {"secp256k1", "p256", "p384", "p521"}

\* Byte length of the key material the provider derives keys from: the
\* private scalar (classic) or the keygen seed (post-quantum).
ProvSeedLen(alg) ==
    CASE alg \in {"ed25519", "secp256k1", "p256", "bls12_381", "x25519", "ml_dsa65"} -> 32
      [] alg = "p384" -> 48
      [] alg = "p521" -> 66
      [] alg = "ml_kem1024" -> 64
      [] alg \in {"slh_dsa_sha2_192f", "slh_dsa_sha2_192s"} -> 72
      [] alg \in {"slh_dsa_sha2_256f", "slh_dsa_sha2_256s"} -> 96

\* Byte length of the key the provider signs with.
ProvSkLen(alg) ==
    CASE alg \in Classic -> ProvSeedLen(alg)
      [] alg = "ml_dsa65" -> 4032
      [] alg = "ml_kem1024" -> 3168
      [] alg \in {"slh_dsa_sha2_192f", "slh_dsa_sha2_192s"} -> 96
      [] alg \in {"slh_dsa_sha2_256f", "slh_dsa_sha2_256s"} -> 128

ProvPkLen(alg) ==
    CASE alg \in {"ed25519", "x25519"} -> 32
      [] alg \in {"secp256k1", "p256"} -> 33
      [] alg = "p384" -> 49
      [] alg = "p521" -> 67
      [] alg = "bls12_381" -> 48
      [] alg = "ml_dsa65" -> 1952
      [] alg = "ml_kem1024" -> 1568
      [] alg \in {"slh_dsa_sha2_192f", "slh_dsa_sha2_192s"} -> 48
      [] alg \in {"slh_dsa_sha2_256f", "slh_dsa_sha2_256s"} -> 64

ProvSigLen(alg) ==
    CASE alg \in {"ed25519", "secp256k1", "p256"} -> 64
      [] alg \in {"p384", "bls12_381"} -> 96
      [] alg = "p521" -> 132
      [] alg = "ml_dsa65" -> 3309
      [] alg = "slh_dsa_sha2_192f" -> 35664
      [] alg = "slh_dsa_sha2_192s" -> 16224
      [] alg = "slh_dsa_sha2_256f" -> 49856
      [] alg = "slh_dsa_sha2_256s" -> 29792
      [] OTHER -> 0

ProvCall(fn, alg, args) == [fn |-> fn, alg |-> alg, args |-> args]
ProvErr(alg) == Err("PrimitiveFailure", "", alg)
NoRoot == Err("PrimitiveFailure", "", "No root")

\* The public key that belongs to the signing key with content k.
PkOf(alg, k) == IF k[1] = "sk" THEN <<"pk", k[2], k[3]>> ELSE <<"pk", alg, k>>

\* noble.getPublicKey(privateKey): rejects a scalar of the wrong length.
ProvGetPublicKey(alg, privateKey) ==
    LET call == <<ProvCall("getPublicKey", alg, <<privateKey>>)>>
    IN IF privateKey.t # "u8" \/ privateKey.len # ProvSeedLen(alg)
       THEN Throw(ProvErr(alg), call, FALSE)
       ELSE Return(U8(ProvPkLen(alg), PkOf(alg, privateKey.c)), call, FALSE)

\* variant.keygen(seed) -> {publicKey, secretKey}
ProvKeygen(alg, seed) ==
    LET call == <<ProvCall("keygen", alg, <<seed>>)>>
    IN IF seed.t # "u8" \/ seed.len # ProvSeedLen(alg)
       THEN Throw(ProvErr(alg), call, FALSE)
       ELSE Return([t |-> "object",
                    publicKey |-> U8(ProvPkLen(alg), <<"pk", alg, seed.c>>),
                    secretKey |-> U8(ProvSkLen(alg), <<"sk", alg, seed.c>>)],
                   call, FALSE)

\* Provider signing, key and message already in the provider's order.
ProvSign(alg, key, message) ==
    LET call == <<ProvCall("sign", alg, <<key, message>>)>>
    IN IF key.t # "u8" \/ message.t # "u8" \/ key.len # ProvSkLen(alg)
       THEN Throw(ProvErr(alg), call, FALSE)
       ELSE Return(U8(ProvSigLen(alg), <<"sig", alg, key.c, message.c>>), call, FALSE)

\* A buffer the provider can decode as a curve point / signature at all.
WellFormed(alg, signature, publicKey) ==
    /\ signature.t = "u8" /\ publicKey.t = "u8"
    /\ signature.len = ProvSigLen(alg)
    /\ publicKey.len = ProvPkLen(alg)

Genuine(signature, message, publicKey, alg) ==
    /\ signature.c[1] = "sig"
    /\ signature.c[2] = alg
    /\ signature.c[4] = message.c
    /\ PkOf(alg, signature.c[3]) = publicKey.c

\* Provider verification.  Malformed input: the Weierstrass curves answer
\* false, the others reject.  BLS decodes both points before pairing and
\* rejects a buffer that is not a point of the group.
ProvVerify(alg, signature, message, publicKey) ==
    LET call == <<ProvCall("verify", alg, <<signature, message, publicKey>>)>>
    IN IF message.t # "u8" THEN Throw(ProvErr(alg), call, FALSE)
       ELSE IF ~WellFormed(alg, signature, publicKey)
       THEN IF alg \in Weierstrass THEN Return(FALSE, call, FALSE)
            ELSE Throw(ProvErr(alg), call, FALSE)
       ELSE IF alg = "bls12_381" /\ (signature.c[1] # "sig" \/ publicKey.c[1] # "pk")
       THEN Throw(ProvErr(alg), call, FALSE)
       ELSE Return(Genuine(signature, message, publicKey, alg), call, FALSE)

\* x25519.getSharedSecret(privateKey, publicKey)
ProvSharedSecret(alg, privateKey, publicKey) ==
    LET call == <<ProvCall("getSharedSecret", alg, <<privateKey, publicKey>>)>>
        mine == PkOf(alg, privateKey.c)
        a == IF publicKey.c[1] = "pk" THEN publicKey.c ELSE <<"pk", alg, publicKey.c>>
    IN IF privateKey.len # ProvSeedLen(alg) \/ publicKey.len # ProvPkLen(alg)
       THEN Throw(ProvErr(alg), call, FALSE)
       ELSE Return(U8(32, <<"dh", alg, {mine, a}, 0, 0, 0>>), call, FALSE)

\* ml_kem1024.encapsulate(publicKey, msg = randomBytes(32)): the provider
\* draws the encapsulated message itself (r) when the adapter passes none.
ProvCtLen(alg) == 1568

ProvEncapsulate(alg, publicKey, r) ==
    LET call == <<ProvCall("encapsulate", alg, <<publicKey>>)>>
    IN IF publicKey.len # ProvPkLen(alg)
       THEN Throw(ProvErr(alg), call, TRUE)
       ELSE Return([t |-> "object",
                    cipherText |-> U8(ProvCtLen(alg), <<"ct", alg, publicKey.c, r, 0, 0, 0>>),
                    sharedSecret |-> U8(32, <<"ss", alg, publicKey.c, r, 0, 0, 0, 0>>)],
                   call, TRUE)

\* ml_kem1024.decapsulate(cipherText, secretKey): the encapsulated secret
\* when the ciphertext was made for this key, else a secret derived from
\* the key and the ciphertext (implicit rejection).
ProvDecapsulate(alg, cipherText, secretKey) ==
    LET call == <<ProvCall("decapsulate", alg, <<cipherText, secretKey>>)>>
    IN IF cipherText.len # ProvCtLen(alg) \/ secretKey.len # ProvSkLen(alg)
       THEN Throw(ProvErr(alg), call, FALSE)
       ELSE IF cipherText.c[1] = "ct" /\ secretKey.c[1] = "sk"
               /\ cipherText.c[3] = PkOf(alg, secretKey.c)
       THEN Return(U8(32, <<"ss", alg, cipherText.c[3], cipherText.c[4], 0, 0, 0, 0>>),
                   call, FALSE)
       ELSE Return(U8(32, <<"ss", alg, <<"rej", secretKey.c, cipherText.c, 0>>, 0,
                             0, 0, 0, 0>>), call, FALSE)

\* The provider is outside the repository: whether it raises an error of
\* its own on an input it would otherwise answer is the environment's
\* choice f, made anew for every call.  "none": it behaves as documented;
\* "No root": it throws new Error('No root'); "failure": it throws
\* another error.
Faults(a) == IF a = "ed25519" THEN {"none", "No root", "failure"} ELSE {"none"}

Faulty(f, alg, o) ==
    IF o.kind = "return" /\ f = "No root" THEN Throw(NoRoot, o.calls, o.rng)
    ELSE IF o.kind = "return" /\ f = "failure" THEN Throw(ProvErr(alg), o.calls, o.rng)
    ELSE o

\* utils.randomPrivateKey() / crypto.getRandomValues(new Uint8Array(n)):
\* n bytes from the host's secure random source, here all equal to r.
Random(n, r) == Return(Fill(n, r), <<>>, TRUE)

(***************************************************************************)
(* Shapes shared by the adapters                                           *)
(***************************************************************************)
\* message instanceof Uint8Array || typeof message === 'string' ||
\* (message && typeof message === 'object' && !Array.isArray(message)
\*  && Object.keys(message).length > 0)
isMessageShape(message) ==
    \/ message.t = "u8"
    \/ message.t = "string"
    \/ (message.t = "object" /\ message.keys > 0)

\* A catch block that replaces every error by the format error.
TranslateEvery(o, text) ==
    IF o.kind = "throw"
    THEN [o EXCEPT !.err = Err("FormatError", "message", FormatMsg)]
    ELSE o

\* catch (error) { if (error.message === text) throw new Error(FormatMsg);
\*                 throw error; }
Translate(o, text) ==
    IF o.kind = "throw" /\ o.err.msg = text
    THEN [o EXCEPT !.err = Err("FormatError", "message", FormatMsg)]
    ELSE o

\* A generatePrivateKey that mixes fresh randomness into a supplied seed.
CheckedSeedMixed(seed, n, lenMsg, r) ==
    IF seed # Undefined
    THEN IF ~isUint8Array(seed) THEN TypeErr("seed", "seed must be a Uint8Array")
         ELSE IF LengthOf(seed) # n THEN LenErr("seed", lenMsg)
         ELSE Random(n, r)
    ELSE Random(n, r)

\* A generatePrivateKey that looks at the length before the type.
CheckedSeedLengthFirst(seed, n, lenMsg, r) ==
    IF seed # Undefined
    THEN IF LengthOf(seed) # n THEN LenErr("seed", lenMsg)
         ELSE IF ~isUint8Array(seed) THEN TypeErr("seed", "seed must be a Uint8Array")
         ELSE Return(seed, <<>>, FALSE)
    ELSE Random(n, r)

\* A generatePrivateKey that returns a copy of the seed, new Uint8Array(seed).
CheckedSeedCopy(seed, n, lenMsg, r) ==
    IF seed # Undefined
    THEN IF ~isUint8Array(seed) THEN TypeErr("seed", "seed must be a Uint8Array")
         ELSE IF LengthOf(seed) # n THEN LenErr("seed", lenMsg)
         ELSE Return(U8(seed.len, seed.c), <<>>, FALSE)
    ELSE Random(n, r)

\* if (seed !== undefined) { type check; length check; return seed }
\* return <n random bytes>
CheckedSeed(seed, n, lenMsg, r) ==
    IF seed # Undefined
    THEN IF ~isUint8Array(seed) THEN TypeErr("seed", "seed must be a Uint8Array")
         ELSE IF LengthOf(seed) # n THEN LenErr("seed", lenMsg)
         ELSE Return(seed, <<>>, FALSE)
    ELSE Random(n, r)

\* if (seed !== undefined && !isUint8Array(seed)) throw ...;
\* return seed || crypto.getRandomValues(new Uint8Array(n))
UncheckedSeed(seed, n, typeMsg, r) ==
    IF seed # Undefined /\ ~isUint8Array(seed) THEN TypeErr("seed", typeMsg)
    ELSE IF seed # Undefined THEN Return(seed, <<>>, FALSE)
    ELSE Random(n, r)

\* { privateKey, publicKey }
KeyPair(privateKey, publicKey) ==
    [t |-> "object", privateKey |-> privateKey, publicKey |-> publicKey]

(***************************************************************************)
(* ed25519                                                                 *)
(***************************************************************************)
ed25519_generatePrivateKey(seed, r) ==
    CheckedSeed(seed, 32, "seed must be 32 bytes", r)

ed25519_getPublicKey(privateKey) ==
    IF ~isUint8Array(privateKey)
    THEN TypeErr("privateKey", "privateKey must be a Uint8Array")
    ELSE IF LengthOf(privateKey) # 32
    THEN LenErr("privateKey", "privateKey must be 32 bytes")
    ELSE ProvGetPublicKey("ed25519", privateKey)

ed25519_generateKeyPair(seed, r) ==
    Bind(ed25519_generatePrivateKey(seed, r), LAMBDA privateKey :
    Bind(ed25519_getPublicKey(privateKey), LAMBDA publicKey :
    Return(KeyPair(privateKey, publicKey), <<>>, FALSE)))

\* A sign that encodes every string as UTF-8 itself instead of calling
\* formatMessage.
ed25519_signUtf8Only(message, privateKey, f) ==
    IF ~isMessageShape(message) THEN FormatErr
    ELSE Bind(IF message.t = "string"
              THEN Return(Utf8Encode(message.s), <<>>, FALSE)
              ELSE formatMessage(message), LAMBDA formattedMessage :
         IF ~isUint8Array(privateKey)
         THEN TypeErr("privateKey", "privateKey must be a Uint8Array")
         ELSE IF LengthOf(privateKey) # 32
         THEN LenErr("privateKey", "privateKey must be 32 bytes")
         ELSE Faulty(f, "ed25519", ProvSign("ed25519", privateKey, formattedMessage)))

ed25519_sign(message, privateKey, f) ==
    Translate(
        IF ~isMessageShape(message) THEN FormatErr
        ELSE Bind(formatMessage(message), LAMBDA formattedMessage :
             IF ~isUint8Array(privateKey)
             THEN TypeErr("privateKey", "privateKey must be a Uint8Array")
             ELSE IF LengthOf(privateKey) # 32
             THEN LenErr("privateKey", "privateKey must be 32 bytes")
             ELSE Faulty(f, "ed25519", ProvSign("ed25519", privateKey, formattedMessage))),
        "No root")

ed25519_verify(signature, message, publicKey, f) ==
    Translate(
        IF ~isUint8Array(signature)
        THEN TypeErr("signature", "signature must be a Uint8Array")
        ELSE IF LengthOf(signature) # 64
        THEN LenErr("signature", "signature must be 64 bytes")
        ELSE IF ~isMessageShape(message) THEN FormatErr
        ELSE Bind(formatMessage(message), LAMBDA formattedMessage :
             IF ~isUint8Array(publicKey)
             THEN TypeErr("publicKey", "publicKey must be a Uint8Array")
             ELSE IF LengthOf(publicKey) # 32
             THEN LenErr("publicKey", "publicKey must be 32 bytes")
             ELSE Faulty(f, "ed25519",
                         ProvVerify("ed25519", signature, formattedMessage, publicKey))),
        "No root")

(***************************************************************************)
(* p256, p384, p521: digest-only adapters, parameterised by the curve      *)
(***************************************************************************)
nist_generatePrivateKey(alg, n, lenMsg, seed, r) ==
    CheckedSeed(seed, n, lenMsg, r)

nist_getPublicKey(alg, privateKey) ==
    IF ~isUint8Array(privateKey)
    THEN TypeErr("privateKey", "privateKey must be a Uint8Array")
    ELSE ProvGetPublicKey(alg, privateKey)

\* A sign that normalizes the message before checking it.
nist_signNormalizing(alg, n, lenMsg, message, privateKey) ==
    Bind(formatMessage(message), LAMBDA formattedMessage :
    IF LengthOf(formattedMessage) # n THEN LenErr("message", lenMsg)
    ELSE IF ~isUint8Array(privateKey)
    THEN TypeErr("privateKey", "privateKey must be a Uint8Array")
    ELSE ProvSign(alg, privateKey, formattedMessage))

\* noble.sign(message, privateKey).toCompactRawBytes()
nist_sign(alg, n, lenMsg, message, privateKey) ==
    IF ~isUint8Array(message)
    THEN TypeErr("message", "message must be a Uint8Array")
    ELSE IF LengthOf(message) # n THEN LenErr("message", lenMsg)
    ELSE IF ~isUint8Array(privateKey)
    THEN TypeErr("privateKey", "privateKey must be a Uint8Array")
    ELSE ProvSign(alg, privateKey, message)

nist_verify(alg, n, lenMsg, sigLen, sigMsg, signature, message, publicKey) ==
    IF ~isUint8Array(signature)
    THEN TypeErr("signature", "signature must be a Uint8Array")
    ELSE IF LengthOf(signature) # sigLen THEN LenErr("signature", sigMsg)
    ELSE IF ~isUint8Array(message)
    THEN TypeErr("message", "message must be a Uint8Array")
    ELSE IF LengthOf(message) # n THEN LenErr("message", lenMsg)
    ELSE IF ~isUint8Array(publicKey)
    THEN TypeErr("publicKey", "publicKey must be a Uint8Array")
    ELSE ProvVerify(alg, signature, message, publicKey)

p256_generatePrivateKey(seed, r) ==
    nist_generatePrivateKey("p256", 32, "seed must be 32 bytes", seed, r)
p256_getPublicKey(privateKey) == nist_getPublicKey("p256", privateKey)
p256_sign(message, privateKey) ==
    nist_sign("p256", 32, "message must be 32 bytes", message, privateKey)
p256_verify(signature, message, publicKey) ==
    nist_verify("p256", 32, "message must be 32 bytes", 64, "signature must be 64 bytes",
                signature, message, publicKey)

p384_generatePrivateKey(seed, r) ==
    nist_generatePrivateKey("p384", 48, "seed must be 48 bytes", seed, r)
p384_getPublicKey(privateKey) == nist_getPublicKey("p384", privateKey)
p384_sign(message, privateKey) ==
    nist_sign("p384", 48, "message must be 48 bytes", message, privateKey)
p384_verify(signature, message, publicKey) ==
    nist_verify("p384", 48, "message must be 48 bytes", 96, "signature must be 96 bytes",
                signature, message, publicKey)

p521_generatePrivateKey(seed, r) ==
    nist_generatePrivateKey("p521", 66, "seed must be 66 bytes", seed, r)
p521_getPublicKey(privateKey) == nist_getPublicKey("p521", privateKey)
p521_sign(message, privateKey) ==
    nist_sign("p521", 66, "message must be 66 bytes", message, privateKey)
p521_verify(signature, message, publicKey) ==
    nist_verify("p521", 66, "message must be 66 bytes", 132, "signature must be 132 bytes",
                signature, message, publicKey)

(***************************************************************************)
(* secp256k1                                                               *)
(***************************************************************************)
\* A generatePrivateKey that keeps the key it handed out in a place shared
\* by all calls and returns it while another call is suspended.
secp256k1_generatePrivateKeyShared(seed, r) ==
    LET busy == {c \in DOMAIN inflight : inflight[c].pc \in {"await1", "await2"}}
    IN IF busy # {} /\ isUint8Array(seed) /\ LengthOf(seed) = 32
       THEN Return(inflight[CHOOSE c \in busy : TRUE].privateKey, <<>>, FALSE)
       ELSE CheckedSeed(seed, 32, "seed must be 32 bytes", r)

secp256k1_generatePrivateKey(seed, r) ==
    CheckedSeed(seed, 32, "seed must be 32 bytes", r)

secp256k1_getPublicKey(privateKey) ==
    IF ~isUint8Array(privateKey)
    THEN TypeErr("privateKey", "privateKey must be a Uint8Array")
    ELSE ProvGetPublicKey("secp256k1", privateKey)

\* async generateKeyPair(seed)
secp256k1_generateKeyPair(seed, r) ==
    Async(Bind(Await(secp256k1_generatePrivateKey(seed, r)), LAMBDA privateKey :
          Bind(Await(secp256k1_getPublicKey(privateKey)), LAMBDA publicKey :
          Return(KeyPair(privateKey, publicKey), <<>>, FALSE))))

secp256k1_sign(message, privateKey) ==
    Translate(
        IF ~isMessageShape(message) THEN FormatErr
        ELSE IF message.t = "string" /\ ~isHexString(message) THEN FormatErr
        ELSE Bind(formatMessage(message), LAMBDA formattedMessage :
             IF ~isUint8Array(privateKey)
             THEN TypeErr("privateKey", "privateKey must be a Uint8Array")
             ELSE ProvSign("secp256k1", privateKey, formattedMessage)),
        "Invalid hex")

secp256k1_verify(signature, message, publicKey) ==
    Translate(
        IF ~isUint8Array(signature)
        THEN TypeErr("signature", "signature must be a Uint8Array")
        ELSE IF LengthOf(signature) # 64
        THEN LenErr("signature", "signature must be 64 bytes")
        ELSE IF ~isMessageShape(message) THEN FormatErr
        ELSE IF message.t = "string" /\ ~isHexString(message) THEN FormatErr
        ELSE Bind(formatMessage(message), LAMBDA formattedMessage :
             IF ~isUint8Array(publicKey)
             THEN TypeErr("publicKey", "publicKey must be a Uint8Array")
             ELSE ProvVerify("secp256k1", signature, formattedMessage, publicKey)),
        "Invalid hex")

(***************************************************************************)
(* bls12_381: the synchronous adapter and the async one                    *)
(***************************************************************************)
bls12_381_generatePrivateKey(seed, r) ==
    CheckedSeed(seed, 32, "seed must be 32 bytes", r)

bls12_381_getPublicKey(privateKey) ==
    IF ~isUint8Array(privateKey)
    THEN TypeErr("privateKey", "privateKey must be a Uint8Array")
    ELSE ProvGetPublicKey("bls12_381", privateKey)

bls12_381_generateKeyPair(seed, r) ==
    Bind(bls12_381_generatePrivateKey(seed, r), LAMBDA privateKey :
    Bind(bls12_381_getPublicKey(privateKey), LAMBDA publicKey :
    Return(KeyPair(privateKey, publicKey), <<>>, FALSE)))

bls12_381_sign(message, privateKey) ==
    IF ~isMessageShape(message) THEN FormatErr
    ELSE Bind(formatMessage(message), LAMBDA formattedMessage :
         IF ~isUint8Array(privateKey)
         THEN TypeErr("privateKey", "privateKey must be a Uint8Array")
         ELSE ProvSign("bls12_381", privateKey, formattedMessage))

bls12_381_verify(signature, message, publicKey) ==
    IF ~isUint8Array(signature)
    THEN TypeErr("signature", "signature must be a Uint8Array")
    ELSE IF ~isMessageShape(message) THEN FormatErr
    ELSE Bind(formatMessage(message), LAMBDA formattedMessage :
         IF ~isUint8Array(publicKey)
         THEN TypeErr("publicKey", "publicKey must be a Uint8Array")
         ELSE ProvVerify("bls12_381", signature, formattedMessage, publicKey))

MessageTypeMsg ==
    "message must be a Uint8Array, use utils.formatMessage() for automatic conversion"

bls12_381_async_generatePrivateKey(seed, r) ==
    Async(CheckedSeed(seed, 32, "seed must be 32 bytes", r))

bls12_381_async_getPublicKey(privateKey) ==
    Async(IF ~isUint8Array(privateKey)
          THEN TypeErr("privateKey", "privateKey must be a Uint8Array")
          ELSE ProvGetPublicKey("bls12_381", privateKey))

bls12_381_async_generateKeyPair(seed, r) ==
    Async(Bind(Await(bls12_381_async_generatePrivateKey(seed, r)), LAMBDA privateKey :
          Bind(Await(bls12_381_async_getPublicKey(privateKey)), LAMBDA publicKey :
          Return(KeyPair(privateKey, publicKey), <<>>, FALSE))))

bls12_381_async_sign(message, privateKey) ==
    Async(IF ~isUint8Array(message) THEN TypeErr("message", MessageTypeMsg)
          ELSE IF ~isUint8Array(privateKey)
          THEN TypeErr("privateKey", "privateKey must be a Uint8Array")
          ELSE Bind(formatMessage(message), LAMBDA formattedMessage :
               ProvSign("bls12_381", privateKey, formattedMessage)))

\* async verify(message, signature, publicKey)
bls12_381_async_verify(message, signature, publicKey) ==
    Async(IF ~isUint8Array(message) THEN TypeErr("message", MessageTypeMsg)
          ELSE IF ~isUint8Array(signature)
          THEN TypeErr("signature", "signature must be a Uint8Array")
          ELSE IF ~isUint8Array(publicKey)
          THEN TypeErr("publicKey", "publicKey must be a Uint8Array")
          ELSE Bind(formatMessage(message), LAMBDA formattedMessage :
               ProvVerify("bls12_381", signature, formattedMessage, publicKey)))

(***************************************************************************)
(* dilithium65 (ML-DSA-65)                                                 *)
(***************************************************************************)
dilithium65_generatePrivateKey(seed, r) ==
    UncheckedSeed(seed, 32,
        "seed must be a Uint8Array, use utils.formatMessage() for automatic conversion", r)

\* return ml_dsa65.keygen(genSeed)
dilithium65_generateKeyPair(seed, r) ==
    Bind(dilithium65_generatePrivateKey(seed, r), LAMBDA genSeed :
    ProvKeygen("ml_dsa65", genSeed))

\* return ml_dsa65.keygen(privateKey).publicKey
dilithium65_getPublicKey(privateKey) ==
    IF ~isUint8Array(privateKey)
    THEN TypeErr("privateKey", "privateKey must be a Uint8Array")
    ELSE Bind(ProvKeygen("ml_dsa65", privateKey), LAMBDA kp :
         Return(Get(kp, "publicKey"), <<>>, FALSE))

dilithium65_sign(message, secretKey) ==
    IF ~isUint8Array(message) THEN TypeErr("message", MessageTypeMsg)
    ELSE IF ~isUint8Array(secretKey)
    THEN TypeErr("secretKey",
             "secretKey must be a Uint8Array, use utils.fromHex() if you have a hex string")
    ELSE ProvSign("ml_dsa65", secretKey, message)

dilithium65_verify(signature, message, publicKey) ==
    IF ~isUint8Array(signature)
    THEN TypeErr("signature",
             "signature must be a Uint8Array, use utils.fromHex() if you have a hex string")
    ELSE IF ~isUint8Array(message) THEN TypeErr("message", MessageTypeMsg)
    ELSE IF ~isUint8Array(publicKey)
    THEN TypeErr("publicKey",
             "publicKey must be a Uint8Array, use utils.fromHex() if you have a hex string")
    ELSE ProvVerify("ml_dsa65", signature, message, publicKey)

(***************************************************************************)
(* createSphincs(variant): sphincs256, sphincs192 and the async sphincs192 *)
(***************************************************************************)
sphincs_getPublicKey(variant, privateKey) ==
    IF ~isUint8Array(privateKey)
    THEN TypeErr("privateKey", "privateKey must be a Uint8Array")
    ELSE Bind(ProvKeygen(variant, privateKey), LAMBDA kp :
         Return(Get(kp, "publicKey"), <<>>, FALSE))

\* const { publicKey, secretKey: privateKey } = variant.keygen(genSeed);
\* return { publicKey, privateKey }
sphincs_keyPairOf(variant, genSeed) ==
    Bind(ProvKeygen(variant, genSeed), LAMBDA kp :
    Return(KeyPair(Get(kp, "secretKey"), Get(kp, "publicKey")), <<>>, FALSE))

sphincs_sign(variant, message, privateKey) ==
    IF ~isUint8Array(message) THEN TypeErr("message", MessageTypeMsg)
    ELSE IF ~isUint8Array(privateKey)
    THEN TypeErr("privateKey", "privateKey must be a Uint8Array")
    ELSE Bind(formatMessage(message), LAMBDA formattedMessage :
         ProvSign(variant, privateKey, formattedMessage))

\* Message first, then signature, then public key; the parameter order
\* differs between the synchronous and the async adapter.
sphincs_verifyChecked(variant, signature, message, publicKey) ==
    IF ~isUint8Array(message) THEN TypeErr("message", MessageTypeMsg)
    ELSE IF ~isUint8Array(signature)
    THEN TypeErr("signature", "signature must be a Uint8Array")
    ELSE IF ~isUint8Array(publicKey)
    THEN TypeErr("publicKey", "publicKey must be a Uint8Array")
    ELSE Bind(formatMessage(message), LAMBDA formattedMessage :
         ProvVerify(variant, signature, formattedMessage, publicKey))

sphincs256_generatePrivateKey(seed, r) ==
    CheckedSeed(seed, 96, "seed must be 96 bytes", r)
sphincs256_generateKeyPair(variant, seed, r) ==
    Bind(sphincs256_generatePrivateKey(seed, r), LAMBDA genSeed :
    sphincs_keyPairOf(variant, genSeed))
sphincs256_verify(variant, signature, message, publicKey) ==
    sphincs_verifyChecked(variant, signature, message, publicKey)

sphincs192_generatePrivateKey(seed, r) ==
    CheckedSeed(seed, 72, "seed must be 72 bytes", r)
sphincs192_generateKeyPair(variant, seed, r) ==
    Bind(sphincs192_generatePrivateKey(seed, r), LAMBDA genSeed :
    sphincs_keyPairOf(variant, genSeed))
sphincs192_verify(variant, signature, message, publicKey) ==
    sphincs_verifyChecked(variant, signature, message, publicKey)

sphincs192_async_generatePrivateKey(seed, r) ==
    Async(CheckedSeed(seed, 32, "seed must be 32 bytes", r))
sphincs192_async_generateKeyPair(variant, seed, r) ==
    Async(Bind(Await(sphincs192_async_generatePrivateKey(seed, r)), LAMBDA genSeed :
          sphincs_keyPairOf(variant, genSeed)))
sphincs192_async_getPublicKey(variant, privateKey) ==
    Async(sphincs_getPublicKey(variant, privateKey))
sphincs192_async_sign(variant, message, privateKey) ==
    Async(sphincs_sign(variant, message, privateKey))
\* async verify(message, signature, publicKey)
sphincs192_async_verify(variant, message, signature, publicKey) ==
    Async(sphincs_verifyChecked(variant, signature, message, publicKey))

(***************************************************************************)
(* kyber1024 (ML-KEM-1024) and ecdh (X25519)                               *)
(***************************************************************************)
\* A generatePrivateKey that draws random bytes whatever the seed.
kyber1024_generatePrivateKeyRandom(seed, r) ==
    IF seed # Undefined /\ ~isUint8Array(seed)
    THEN TypeErr("seed", "seed must be a Uint8Array")
    ELSE Random(64, r)

kyber1024_generatePrivateKey(seed, r) ==
    UncheckedSeed(seed, 64, "seed must be a Uint8Array", r)

kyber1024_generateKeyPair(seed, r) ==
    Bind(kyber1024_generatePrivateKey(seed, r), LAMBDA genSeed :
    ProvKeygen("ml_kem1024", genSeed))

kyber1024_getPublicKey(privateKey) ==
    IF ~isUint8Array(privateKey)
    THEN TypeErr("privateKey", "privateKey must be a Uint8Array")
    ELSE Bind(ProvKeygen("ml_kem1024", privateKey), LAMBDA kp :
         Return(Get(kp, "publicKey"), <<>>, FALSE))

kyber1024_encapsulate(publicKey, r) ==
    IF ~isUint8Array(publicKey)
    THEN TypeErr("publicKey", "publicKey must be a Uint8Array")
    ELSE Bind(ProvEncapsulate("ml_kem1024", publicKey, r), LAMBDA result :
         Return([t |-> "object",
                 ciphertext |-> result.cipherText,
                 sharedSecret |-> result.sharedSecret], <<>>, FALSE))

\* A decapsulate that hands its arguments to the provider in the other
\* order.
kyber1024_decapsulateSwapped(ciphertext, secretKey) ==
    IF ~isUint8Array(ciphertext)
    THEN TypeErr("ciphertext", "ciphertext must be a Uint8Array")
    ELSE IF ~isUint8Array(secretKey)
    THEN TypeErr("secretKey", "secretKey must be a Uint8Array")
    ELSE ProvDecapsulate("ml_kem1024", secretKey, ciphertext)

kyber1024_decapsulate(ciphertext, secretKey) ==
    IF ~isUint8Array(ciphertext)
    THEN TypeErr("ciphertext", "ciphertext must be a Uint8Array")
    ELSE IF ~isUint8Array(secretKey)
    THEN TypeErr("secretKey", "secretKey must be a Uint8Array")
    ELSE ProvDecapsulate("ml_kem1024", ciphertext, secretKey)

ecdh_generatePrivateKey(seed, r) ==
    CheckedSeed(seed, 32, "seed must be 32 bytes", r)

ecdh_getPublicKey(privateKey) ==
    IF ~isUint8Array(privateKey)
    THEN TypeErr("privateKey", "privateKey must be a Uint8Array")
    ELSE IF LengthOf(privateKey) # 32
    THEN LenErr("privateKey", "privateKey must be 32 bytes")
    ELSE ProvGetPublicKey("x25519", privateKey)

ecdh_generateKeyPair(seed, r) ==
    Bind(ecdh_generatePrivateKey(seed, r), LAMBDA privateKey :
    Bind(ecdh_getPublicKey(privateKey), LAMBDA publicKey :
    Return(KeyPair(privateKey, publicKey), <<>>, FALSE)))

ecdh_computeSharedSecret(privateKey, publicKey) ==
    IF ~isUint8Array(privateKey)
    THEN TypeErr("privateKey", "privateKey must be a Uint8Array")
    ELSE IF ~isUint8Array(publicKey)
    THEN TypeErr("publicKey", "publicKey must be a Uint8Array")
    ELSE IF LengthOf(privateKey) # 32
    THEN LenErr("privateKey", "privateKey must be 32 bytes")
    ELSE IF LengthOf(publicKey) # 32
    THEN LenErr("publicKey", "publicKey must be 32 bytes")
    ELSE ProvSharedSecret("x25519", privateKey, publicKey)

(***************************************************************************)
(* The adapters as one interface                                           *)
(***************************************************************************)
Adapters == {"ed25519", "secp256k1", "p256", "p384", "p521", "bls12_381",
             "bls12_381_async", "dilithium65", "sphincs256_fast", "sphincs256_small",
             "sphincs192_fast", "sphincs192_async", "kyber1024", "ecdh"}

Sphincs == {"sphincs256_fast", "sphincs256_small", "sphincs192_fast", "sphincs192_async"}

\* export const sphincs256 = { ...createSphincs(sphincs256f),
\*     fast: createSphincs(sphincs256f), small: createSphincs(sphincs256s) }
\* "sphincs256" stands for the namespace object itself (its spread,
\* top-level methods), "sphincs256_fast" for sphincs256.fast, and so on.
Sphincs256 == {"sphincs256", "sphincs256_fast", "sphincs256_small"}
Sphincs192 == {"sphincs192", "sphincs192_fast", "sphincs192_small"}
Namespaces == {"sphincs256", "sphincs192"}
NsAdapters == Sphincs256 \cup Sphincs192

Signing == (Adapters \cup NsAdapters) \ {"kyber1024", "ecdh"}
DigestOnly == {"p256", "p384", "p521"}

\* A namespace whose top-level methods come from the small variant.
VariantSpreadSmall(a) ==
    CASE a \in {"sphincs256_fast"} -> "slh_dsa_sha2_256f"
      [] a \in {"sphincs256", "sphincs256_small"} -> "slh_dsa_sha2_256s"
      [] a \in {"sphincs192_fast", "sphincs192_async"} -> "slh_dsa_sha2_192f"
      [] a \in {"sphincs192", "sphincs192_small"} -> "slh_dsa_sha2_192s"
      [] a = "dilithium65" -> "ml_dsa65"
      [] a = "kyber1024" -> "ml_kem1024"
      [] a = "ecdh" -> "x25519"
      [] a = "bls12_381_async" -> "bls12_381"
      [] OTHER -> a

\* The provider instance an adapter wraps.
Variant(a) ==
    CASE a \in {"sphincs256", "sphincs256_fast"} -> "slh_dsa_sha2_256f"
      [] a = "sphincs256_small" -> "slh_dsa_sha2_256s"
      [] a \in {"sphincs192", "sphincs192_fast", "sphincs192_async"} -> "slh_dsa_sha2_192f"
      [] a = "sphincs192_small" -> "slh_dsa_sha2_192s"
      [] a = "dilithium65" -> "ml_dsa65"
      [] a = "kyber1024" -> "ml_kem1024"
      [] a = "ecdh" -> "x25519"
      [] a = "bls12_381_async" -> "bls12_381"
      [] OTHER -> a

\* The methods an adapter object defines.
HasMethod(a, op) ==
    CASE op \in {"generatePrivateKey", "getPublicKey"} -> TRUE
      [] op = "generateKeyPair" -> a \notin DigestOnly
      [] op \in {"sign", "verify"} -> a \in Signing
      [] op = "computeSharedSecret" -> a = "ecdh"
      [] op \in {"encapsulate", "decapsulate"} -> a = "kyber1024"
      [] OTHER -> FALSE

generatePrivateKey(a, seed, r) ==
    CASE a = "ed25519" -> ed25519_generatePrivateKey(seed, r)
      [] a = "secp256k1" -> secp256k1_generatePrivateKey(seed, r)
      [] a = "p256" -> p256_generatePrivateKey(seed, r)
      [] a = "p384" -> p384_generatePrivateKey(seed, r)
      [] a = "p521" -> p521_generatePrivateKey(seed, r)
      [] a = "bls12_381" -> bls12_381_generatePrivateKey(seed, r)
      [] a = "bls12_381_async" -> bls12_381_async_generatePrivateKey(seed, r)
      [] a = "dilithium65" -> dilithium65_generatePrivateKey(seed, r)
      [] a \in Sphincs256 -> sphincs256_generatePrivateKey(seed, r)
      [] a \in Sphincs192 -> sphincs192_generatePrivateKey(seed, r)
      [] a = "sphincs192_async" -> sphincs192_async_generatePrivateKey(seed, r)
      [] a = "kyber1024" -> kyber1024_generatePrivateKey(seed, r)
      [] a = "ecdh" -> ecdh_generatePrivateKey(seed, r)

generateKeyPair(a, seed, r) ==
    CASE a = "ed25519" -> ed25519_generateKeyPair(seed, r)
      [] a = "secp256k1" -> secp256k1_generateKeyPair(seed, r)
      [] a = "bls12_381" -> bls12_381_generateKeyPair(seed, r)
      [] a = "bls12_381_async" -> bls12_381_async_generateKeyPair(seed, r)
      [] a = "dilithium65" -> dilithium65_generateKeyPair(seed, r)
      [] a \in Sphincs256 ->
             sphincs256_generateKeyPair(Variant(a), seed, r)
      [] a \in Sphincs192 -> sphincs192_generateKeyPair(Variant(a), seed, r)
      [] a = "sphincs192_async" -> sphincs192_async_generateKeyPair(Variant(a), seed, r)
      [] a = "kyber1024" -> kyber1024_generateKeyPair(seed, r)
      [] a = "ecdh" -> ecdh_generateKeyPair(seed, r)

getPublicKey(a, privateKey) ==
    CASE a = "ed25519" -> ed25519_getPublicKey(privateKey)
      [] a = "secp256k1" -> secp256k1_getPublicKey(privateKey)
      [] a = "p256" -> p256_getPublicKey(privateKey)
      [] a = "p384" -> p384_getPublicKey(privateKey)
      [] a = "p521" -> p521_getPublicKey(privateKey)
      [] a = "bls12_381" -> bls12_381_getPublicKey(privateKey)
      [] a = "bls12_381_async" -> bls12_381_async_getPublicKey(privateKey)
      [] a = "dilithium65" -> dilithium65_getPublicKey(privateKey)
      [] a \in Sphincs256 \cup Sphincs192 ->
             sphincs_getPublicKey(Variant(a), privateKey)
      [] a = "sphincs192_async" -> sphincs192_async_getPublicKey(Variant(a), privateKey)
      [] a = "kyber1024" -> kyber1024_getPublicKey(privateKey)
      [] a = "ecdh" -> ecdh_getPublicKey(privateKey)

sign(a, message, privateKey, f) ==
    CASE a = "ed25519" -> ed25519_sign(message, privateKey, f)
      [] a = "secp256k1" -> secp256k1_sign(message, privateKey)
      [] a = "p256" -> p256_sign(message, privateKey)
      [] a = "p384" -> p384_sign(message, privateKey)
      [] a = "p521" -> p521_sign(message, privateKey)
      [] a = "bls12_381" -> bls12_381_sign(message, privateKey)
      [] a = "bls12_381_async" -> bls12_381_async_sign(message, privateKey)
      [] a = "dilithium65" -> dilithium65_sign(message, privateKey)
      [] a \in Sphincs256 \cup Sphincs192 ->
             sphincs_sign(Variant(a), message, privateKey)
      [] a = "sphincs192_async" -> sphincs192_async_sign(Variant(a), message, privateKey)

\* verify called with its three arguments in the order the caller gives them.
verify(a, a1, a2, a3, f) ==
    CASE a = "ed25519" -> ed25519_verify(a1, a2, a3, f)
      [] a = "secp256k1" -> secp256k1_verify(a1, a2, a3)
      [] a = "p256" -> p256_verify(a1, a2, a3)
      [] a = "p384" -> p384_verify(a1, a2, a3)
      [] a = "p521" -> p521_verify(a1, a2, a3)
      [] a = "bls12_381" -> bls12_381_verify(a1, a2, a3)
      [] a = "bls12_381_async" -> bls12_381_async_verify(a1, a2, a3)
      [] a = "dilithium65" -> dilithium65_verify(a1, a2, a3)
      [] a \in Sphincs256 ->
             sphincs256_verify(Variant(a), a1, a2, a3)
      [] a \in Sphincs192 -> sphincs192_verify(Variant(a), a1, a2, a3)
      [] a = "sphincs192_async" -> sphincs192_async_verify(Variant(a), a1, a2, a3)

\* The fixed sizes the adapters document for their arguments.
SeedLen(a) ==
    CASE a \in {"ed25519", "secp256k1", "p256", "bls12_381", "bls12_381_async",
                "dilithium65", "ecdh", "sphincs192_async"} -> 32
      [] a = "p384" -> 48
      [] a = "p521" -> 66
      [] a = "kyber1024" -> 64
      [] a \in Sphincs192 -> 72
      [] a \in Sphincs256 -> 96

\* Length of the message digest a digest-only adapter signs.
DigestLen(a) == CASE a = "p384" -> 48 [] a = "p521" -> 66 [] OTHER -> 32

(***************************************************************************)
(* A caller's session with one adapter                                     *)
(***************************************************************************)
VARIABLES
    fault,     \* what the provider did in the most recent call (see Faults)
    adapter,   \* the adapter the session talks to
    kp,        \* the key pair the caller holds, None before it has one
    sg,        \* the signature (or encapsulation) the caller holds, made
               \* while holding kp
    last       \* the most recent call: operation, arguments, outcome

vars == <<adapter, kp, sg, last, fault, inflight>>

None == [op |-> "none"]

\* One byte of a buffer changed.
Flip(v) ==
    IF v.c[1] = "bytes"
    THEN Bytes([v.c[2] EXCEPT ![1] = (@ + 1) % 256])
    ELSE U8(v.len, <<"flip", v.c, 0, 0, 0>>)

Flipped(v) == IF v.t = "u8" /\ v.len > 0 THEN {Flip(v)} ELSE {}

\* A length different from the fixed length n.
Short(n) == IF n <= 133 THEN n - 1 ELSE 64

Invalid == Str(<<"i", "n", "v", "a", "l", "i", "d">>)
TestBytes == Bytes(<<116, 101, 115, 116>>)
HexText == Str(<<"c", "a", "f", "e", "0", "1">>)
JsonObject == Obj(1, <<"{", "\"", "a", "\"", ":", "1", "}">>)
EmptyObject == Obj(0, <<"{", "}">>)

\* Arguments the caller tries.
Seeds(a) ==
    {Undefined, Invalid, Arr(SeedLen(a)), Fill(SeedLen(a) - 1, 0)}
        \cup {Fill(SeedLen(a), b) : b \in 0..MaxFill}

Held(rec, fields) == IF rec = None THEN {} ELSE {Get(rec.val, f) : f \in fields}

PrivateKeys(a) ==
    {Fill(SeedLen(a), b) : b \in 0..MaxFill}
        \cup {Fill(SeedLen(a) - 1, 0), Invalid}
        \cup Held(kp, {"privateKey", "secretKey"})

\* The hex text of the digest Fill(DigestLen(a), 1).
HexDigest(a) == Str([i \in 1..(2 * DigestLen(a)) |-> IF i % 2 = 1 THEN "0" ELSE "1"])

\* What a caller of a digest-only adapter may try besides a digest.
DigestTrials(a) == IF a \in DigestOnly THEN {TestBytes, HexDigest(a)} ELSE {}

Messages(a) ==
    {Fill(DigestLen(a), 1), TestBytes, HexText, Invalid, JsonObject, EmptyObject, Num(123)}
        \cup DigestTrials(a)

Signatures(a) ==
    LET n == ProvSigLen(Variant(a))
        held == IF sg = None THEN {} ELSE {sg.val} \cup Flipped(sg.val)
    IN held \cup {Fill(Short(n), 0), Invalid}
            \cup (IF n <= 133 THEN {Fill(n, 0)} ELSE {})

VerifyMessages(a) ==
    {Fill(DigestLen(a), 1), Invalid, Num(123)} \cup DigestTrials(a)
        \cup (IF sg = None THEN {} ELSE {sg.message} \cup Flipped(sg.message))

PublicKeys(a) ==
    LET held == Held(kp, {"publicKey"})
    IN held \cup UNION {Flipped(k) : k \in held}
            \cup {Fill(Short(ProvPkLen(Variant(a))), 0), Invalid}

Ciphertexts(a) ==
    LET held == Held(sg, {"ciphertext"}) \ {Undefined}
    IN held \cup UNION {Flipped(c) : c \in held}
            \cup {Fill(Short(ProvCtLen(Variant(a))), 0), Invalid}

\* The provider can only fail in a call that reaches it: `o` is the outcome
\* of the call with a provider that behaves as documented.
FaultsIn(a, o) ==
    IF Faults(a) = {"none"} THEN {"none"}
    ELSE IF o.calls = <<>> THEN {"none"}
    ELSE Faults(a)

Callers == {1, 2}

\* A caller that has no call in flight.
IdleCall == [pc |-> "idle", a |-> "", seed |-> Undefined, r |-> 0,
             privateKey |-> Undefined, part |-> None, out |-> None]

Call(op, a1, a2, a3, out) == [op |-> op, args |-> <<a1, a2, a3>>, out |-> out]

Init ==
    /\ adapter \in Adapters
    /\ kp = None
    /\ sg = None
    /\ last = None
    /\ fault = "none"
    /\ inflight = [c \in Callers |-> IdleCall]

GeneratePrivateKey ==
    \E seed \in Seeds(adapter), r \in 0..MaxFill :
        /\ HasMethod(adapter, "generatePrivateKey")
        /\ last' = Call("generatePrivateKey", seed, Undefined, Undefined,
                        generatePrivateKey(adapter, seed, r))
        /\ fault' = "none"
        /\ UNCHANGED <<adapter, kp, sg, inflight>>

\* The caller awaits the result and keeps the key pair it got.
GenerateKeyPair ==
    \E seed \in Seeds(adapter), r \in 0..MaxFill :
        LET out == generateKeyPair(adapter, seed, r)
            res == Await(out)
        IN /\ HasMethod(adapter, "generateKeyPair")
           /\ last' = Call("generateKeyPair", seed, Undefined, Undefined, out)
           /\ IF res.kind = "return"
              THEN /\ kp' = [op |-> "generateKeyPair", seed |-> seed, val |-> res.val]
                   /\ sg' = None
              ELSE UNCHANGED <<kp, sg>>
           /\ fault' = "none"
           /\ UNCHANGED <<adapter, inflight>>

\* Where the adapter has no generateKeyPair the caller assembles the pair
\* from the private key and the public key derived from it.
GetPublicKey ==
    \E privateKey \in PrivateKeys(adapter) :
        LET out == getPublicKey(adapter, privateKey)
            res == Await(out)
        IN /\ HasMethod(adapter, "getPublicKey")
           /\ last' = Call("getPublicKey", privateKey, Undefined, Undefined, out)
           /\ IF res.kind = "return" /\ ~HasMethod(adapter, "generateKeyPair")
              THEN /\ kp' = [op |-> "getPublicKey", seed |-> privateKey,
                             val |-> KeyPair(privateKey, res.val)]
                   /\ sg' = None
              ELSE UNCHANGED <<kp, sg>>
           /\ fault' = "none"
           /\ UNCHANGED <<adapter, inflight>>

Sign ==
    \E message \in Messages(adapter), privateKey \in PrivateKeys(adapter) :
      \E f \in FaultsIn(adapter, sign(adapter, message, privateKey, "none")) :
        LET out == sign(adapter, message, privateKey, f)
            res == Await(out)
        IN /\ HasMethod(adapter, "sign")
           /\ fault' = f
           /\ last' = Call("sign", message, privateKey, Undefined, out)
           /\ IF res.kind = "return"
              THEN sg' = [op |-> "sign", message |-> message, key |-> privateKey,
                          val |-> res.val]
              ELSE UNCHANGED sg
           /\ UNCHANGED <<adapter, kp, inflight>>

\* The caller passes (signature, message, publicKey), the documented order.
Verify ==
    \E signature \in Signatures(adapter), message \in VerifyMessages(adapter),
       publicKey \in PublicKeys(adapter) :
      \E f \in FaultsIn(adapter, verify(adapter, signature, message, publicKey, "none")) :
        /\ HasMethod(adapter, "verify")
        /\ fault' = f
        /\ last' = Call("verify", signature, message, publicKey,
                        verify(adapter, signature, message, publicKey, f))
        /\ UNCHANGED <<adapter, kp, sg, inflight>>

ComputeSharedSecret ==
    \E privateKey \in PrivateKeys(adapter), publicKey \in PublicKeys(adapter) :
        /\ HasMethod(adapter, "computeSharedSecret")
        /\ last' = Call("computeSharedSecret", privateKey, publicKey, Undefined,
                        ecdh_computeSharedSecret(privateKey, publicKey))
        /\ fault' = "none"
        /\ UNCHANGED <<adapter, kp, sg, inflight>>

\* The caller keeps the encapsulation it got.
Encapsulate ==
    \E publicKey \in PublicKeys(adapter), r \in 0..MaxFill :
        LET out == kyber1024_encapsulate(publicKey, r)
        IN /\ HasMethod(adapter, "encapsulate")
           /\ last' = Call("encapsulate", publicKey, Undefined, Undefined, out)
           /\ IF out.kind = "return"
              THEN sg' = [op |-> "encapsulate", message |-> Undefined, key |-> publicKey,
                          val |-> out.val]
              ELSE UNCHANGED sg
           /\ fault' = "none"
           /\ UNCHANGED <<adapter, kp, inflight>>

Decapsulate ==
    \E ciphertext \in Ciphertexts(adapter), secretKey \in PrivateKeys(adapter) :
        /\ HasMethod(adapter, "decapsulate")
        /\ last' = Call("decapsulate", ciphertext, secretKey, Undefined,
                        kyber1024_decapsulate(ciphertext, secretKey))
        /\ fault' = "none"
        /\ UNCHANGED <<adapter, kp, sg, inflight>>

Next ==
    \/ GeneratePrivateKey
    \/ GenerateKeyPair
    \/ GetPublicKey
    \/ Sign
    \/ Verify
    \/ ComputeSharedSecret
    \/ Encapsulate
    \/ Decapsulate

Spec == Init /\ [][Next]_vars

TypeOK ==
    /\ adapter \in Adapters
    /\ fault \in Faults(adapter)
    /\ last.op \in {"none", "generatePrivateKey", "generateKeyPair", "getPublicKey",
                    "sign", "verify", "computeSharedSecret", "encapsulate",
                    "decapsulate"}

(***************************************************************************)
(* Properties                                                              *)
(***************************************************************************)
\* What the caller has once the last call has settled (`await` on a
\* synchronous result is the result itself).
Result == Await(last.out)

Returned == Result.kind = "return"
Threw(cls) == Result.kind = "throw" /\ Result.err.cls = cls

\* A byte buffer of the seed size the adapter documents.
ValidSeed(a, S) == isUint8Array(S) /\ LengthOf(S) = SeedLen(a)

\* The caller holds a key pair that generateKeyPair(S) returned for a valid
\* seed S.
HoldsGeneratedPair ==
    /\ kp.op = "generateKeyPair"
    /\ ValidSeed(adapter, kp.seed)

\* C1: for every Signing adapter, with kp = generateKeyPair(S) for a valid
\* seed S, sign(M, kp.privateKey) yields a signature for a byte-buffer
\* message M and verify(that signature, M, kp.publicKey) returns true.
C1_RoundTrip ==
    (adapter \in Signing /\ HoldsGeneratedPair) =>
        /\ (/\ last.op = "sign"
            /\ isUint8Array(last.args[1])
            /\ last.args[2] = Get(kp.val, "privateKey")) => Returned
        /\ (/\ last.op = "verify"
            /\ sg # None
            /\ sg.key = Get(kp.val, "privateKey")
            /\ last.args = <<sg.val, sg.message, Get(kp.val, "publicKey")>>)
               => (Returned /\ Result.val = TRUE)

\* C2: generatePrivateKey(S) with a valid seed S returns exactly S: no
\* random draw, nothing mixed in, so equal seeds give equal keys.
C2_SeedVerbatim ==
    (last.op = "generatePrivateKey" /\ ValidSeed(adapter, last.args[1])) =>
        /\ Returned
        /\ Result.val = last.args[1]
        /\ ~Result.rng
        /\ Result.calls = <<>>

C2_Witness ==
    /\ last.op = "generatePrivateKey"
    /\ ValidSeed(adapter, last.args[1])
    /\ Returned
    /\ Result.val = Fill(SeedLen(adapter), 1)

\* An error message that contains `text`, the way the repository's tests
\* match messages (expect(...).toThrow(text)): the text itself, or the text
\* followed by the hint some adapters append.
Hint == ", use utils.formatMessage() for automatic conversion"
Mentions(msg, text) == msg = text \/ msg = text \o Hint

\* The seed argument was given and is not a Uint8Array.
WrongTypeSeed ==
    /\ last.op \in {"generatePrivateKey", "generateKeyPair"}
    /\ last.args[1] # Undefined
    /\ ~isUint8Array(last.args[1])

\* C3: generatePrivateKey and generateKeyPair given a seed that is not a
\* Uint8Array fail with the type error 'seed must be a Uint8Array', never
\* with a length error, whatever length the value has.
C3_SeedTypeError ==
    WrongTypeSeed =>
        /\ Threw("TypeMismatch")
        /\ Result.err.arg = "seed"
        /\ Mentions(Result.err.msg, "seed must be a Uint8Array")

C3_Witness ==
    /\ WrongTypeSeed
    /\ last.op = "generateKeyPair"
    /\ LengthOf(last.args[1]) = SeedLen(adapter)
    /\ Threw("TypeMismatch")

\* The positions of an operation's byte-buffer arguments other than the
\* message.
BufferArgs(op) ==
    CASE op \in {"generatePrivateKey", "generateKeyPair", "getPublicKey"} -> {1}
      [] op = "sign" -> {2}
      [] op = "verify" -> {1, 3}
      [] op = "computeSharedSecret" -> {1, 2}
      [] OTHER -> {}

\* Argument i of the last call was given and is not a Uint8Array.
WrongType(i) ==
    /\ ~isUint8Array(last.args[i])
    /\ ~(last.op \in {"generatePrivateKey", "generateKeyPair"} /\ last.args[i] = Undefined)

\* The last call has a message argument and it is not a byte buffer.
HasOtherMessage ==
    \/ last.op = "sign" /\ ~isUint8Array(last.args[1])
    \/ last.op = "verify" /\ ~isUint8Array(last.args[2])

\* C4: all type checks precede all length checks: a call in which some
\* byte-buffer argument has the wrong type (the message, if any, being a
\* byte buffer) fails with a TypeMismatch, also when another argument is a
\* byte buffer of the wrong length.
C4_TypeBeforeLength ==
    (/\ last.op # "none"
     /\ ~HasOtherMessage
     /\ \E i \in BufferArgs(last.op) : WrongType(i)) => Threw("TypeMismatch")

\* C5: generatePrivateKey and generateKeyPair given a Uint8Array seed whose
\* length is not the adapter's seed size fail with a LengthMismatch.
C5_SeedLengthError ==
    (/\ last.op \in {"generatePrivateKey", "generateKeyPair"}
     /\ isUint8Array(last.args[1])
     /\ LengthOf(last.args[1]) # SeedLen(adapter))
        => (Threw("LengthMismatch") /\ Result.err.arg = "seed")

\* The private key argument of the last getPublicKey or sign call.
PrivateKeyArg == IF last.op = "sign" THEN last.args[2] ELSE last.args[1]

\* C6: getPublicKey(privateKey) and sign(message, privateKey) given a
\* Uint8Array private key of a wrong length (and a well-formed message)
\* fail with a LengthMismatch before the provider is invoked.
C6_KeyLengthBeforeProvider ==
    (/\ last.op \in {"getPublicKey", "sign"}
     /\ isUint8Array(PrivateKeyArg)
     /\ LengthOf(PrivateKeyArg) \notin {SeedLen(adapter), ProvSkLen(Variant(adapter))}
     /\ last.op = "sign" =>
            /\ isUint8Array(last.args[1])
            /\ adapter \in DigestOnly => LengthOf(last.args[1]) = DigestLen(adapter))
        => (Threw("LengthMismatch") /\ Result.calls = <<>>)

\* A verify argument that is not a byte buffer of the algorithm's size.
Malformed(v, n) == ~isUint8Array(v) \/ LengthOf(v) # n

\* C7: verify throws, and never returns false, when the signature or the
\* public key is not a byte buffer of the algorithm's fixed size, or the
\* message is in none of the message forms.
C7_VerifyThrowsOnMalformed ==
    (/\ last.op = "verify"
     /\ \/ Malformed(last.args[1], ProvSigLen(Variant(adapter)))
        \/ Malformed(last.args[3], ProvPkLen(Variant(adapter)))
        \/ last.args[2].t \notin {"u8", "string", "object"})
        => Result.kind = "throw"

\* The caller holds a signature of a byte-buffer message that verifies
\* against the public key it holds.
HoldsValidSignature ==
    /\ sg # None
    /\ kp # None
    /\ isUint8Array(sg.message)
    /\ isUint8Array(Get(kp.val, "publicKey"))
    /\ LET o == Await(verify(adapter, sg.val, sg.message, kp.val.publicKey, "none"))
       IN o.kind = "return" /\ o.val = TRUE

\* C8: verify given a valid (signature, message, publicKey) with one byte
\* of one of the three changed returns false and does not throw.
C8_FlippedByteIsFalse ==
    (/\ last.op = "verify"
     /\ HoldsValidSignature
     /\ last.args \in {<<Flip(sg.val), sg.message, kp.val.publicKey>>,
                       <<sg.val, Flip(sg.message), kp.val.publicKey>>,
                       <<sg.val, sg.message, Flip(kp.val.publicKey)>>})
        => (Returned /\ Result.val = FALSE)

\* C9: getPublicKey applied to the private (secret) key that
\* generateKeyPair(S) returned gives the public key that it returned.
C9_PublicKeyRederivable ==
    (/\ HoldsGeneratedPair
     /\ last.op = "getPublicKey"
     /\ isUint8Array(last.args[1])
     /\ last.args[1] \in Held(kp, {"privateKey", "secretKey"}))
        => (Returned /\ Result.val = Get(kp.val, "publicKey"))

\* C10: the record generateKeyPair returns has the fields privateKey and
\* publicKey, both byte buffers, and no secretKey field.
C10_KeyPairFields ==
    kp.op = "generateKeyPair" =>
        /\ isUint8Array(Get(kp.val, "privateKey"))
        /\ isUint8Array(Get(kp.val, "publicKey"))
        /\ "secretKey" \notin DOMAIN kp.val

\* The adapters whose sign and verify take flexible message shapes.
Flexible == {"ed25519", "secp256k1", "bls12_381"}

\* Two calls end the same way: both return the same value or both throw
\* the same error.
SameOutcome(o1, o2) ==
    /\ o1.kind = o2.kind
    /\ IF o1.kind = "return" THEN o1.val = o2.val ELSE o1.err = o2.err

AcceptsShape(a, message) ==
    /\ isMessageShape(message)
    /\ (a = "secp256k1" /\ message.t = "string") => isHexString(message)

\* The message argument of the last sign or verify call.
MessageArg == IF last.op = "sign" THEN last.args[1] ELSE last.args[2]

DigestLenText(a) ==
    CASE a = "p256" -> "message must be 32 bytes"
      [] a = "p384" -> "message must be 48 bytes"
      [] a = "p521" -> "message must be 66 bytes"

\* The last call is a sign or verify of a digest-only adapter that gets as
\* far as its message (verify looks at the signature first).
DigestCall ==
    /\ adapter \in DigestOnly
    /\ \/ last.op = "sign"
       \/ /\ last.op = "verify"
          /\ ~Malformed(last.args[1], ProvSigLen(adapter))

Alphabet == {"0", "a", "F", "g"}
Strings == UNION {[1..n -> Alphabet] : n \in 0..MaxLen}

OddHex == Str(<<"c", "a", "f", "e", "0">>)
\* 32 characters that are not hex digits, 62 hex digits.
Text32 == Str([i \in 1..32 |-> "g"])
Hex62 == Str([i \in 1..62 |-> "a"])
CircularObject == Obj(1, <<>>)
TypedArray16 == Inst("Uint16Array", 1, <<"{", "\"", "0", "\"", ":", "1", "}">>)

FormatInputs ==
    {Str(s) : s \in Strings}
        \cup {HexText, OddHex, Invalid, Text32, Hex62, HexDigest("p256")}
        \cup {TestBytes, Fill(0, 0), Fill(31, 1), Fill(32, 1), Fill(33, 1)}
        \cup {JsonObject, EmptyObject, CircularObject, TypedArray16}
        \cup {Undefined, Null, Num(123), Bool(TRUE), Bool(FALSE), Arr(0), Arr(2)}

InitUtils ==
    /\ adapter = "utils"
    /\ kp = None
    /\ sg = None
    /\ last = None
    /\ fault = "none"
    /\ inflight = [c \in Callers |-> IdleCall]

FormatMessage ==
    \E message \in FormatInputs :
        /\ last' = Call("formatMessage", message, Undefined, Undefined,
                        formatMessage(message))
        /\ UNCHANGED <<adapter, kp, sg, fault, inflight>>

FormatMessageHash ==
    \E messageHash \in FormatInputs :
        /\ last' = Call("formatMessageHash", messageHash, Undefined, Undefined,
                        formatMessageHash(messageHash))
        /\ UNCHANGED <<adapter, kp, sg, fault, inflight>>

NextUtils ==
    \/ FormatMessage
    \/ FormatMessageHash

SpecUtils == InitUtils /\ [][NextUtils]_vars

\* The strict hex pattern: even length, only [0-9a-fA-F].
StrictHex(s) ==
    /\ Len(s) % 2 = 0
    /\ \A i \in 1..Len(s) :
          s[i] \in {"0", "1", "2", "3", "4", "5", "6", "7", "8", "9",
                    "a", "b", "c", "d", "e", "f", "A", "B", "C", "D", "E", "F"}

\* A plain object that JSON.stringify can serialize.
PlainObject(x) == x.t = "object" /\ "class" \notin DOMAIN x /\ x.json # <<>>

\* C13: formatMessage returns a byte buffer unchanged, hex-decodes a
\* string exactly when it is strict hex and otherwise returns its UTF-8
\* bytes, and returns the UTF-8 bytes of the JSON text of a plain object.
C13_FormatMessage ==
    last.op = "formatMessage" =>
        LET x == last.args[1]
        IN /\ isUint8Array(x) => (Returned /\ Result.val = x)
           /\ (x.t = "string" /\ StrictHex(x.s)) =>
                 /\ Returned
                 /\ Result.val.len = x.len \div 2
                 /\ \A i \in 1..(x.len \div 2) :
                       Result.val.c[2][i] = 16 * HexVal(x.s[2 * i - 1]) + HexVal(x.s[2 * i])
           /\ (x.t = "string" /\ ~StrictHex(x.s)) =>
                 /\ Returned
                 /\ Result.val.len = x.len
                 /\ \A i \in 1..x.len : Result.val.c[2][i] = CharCode(x.s[i])
           /\ PlainObject(x) =>
                 /\ Returned
                 /\ Result.val.len = Len(x.json)
                 /\ \A i \in 1..Len(x.json) : Result.val.c[2][i] = CharCode(x.json[i])
           /\ x = HexText => Result.val = Bytes(<<202, 254, 1>>)
           /\ x = OddHex => Result.val = Bytes(<<99, 97, 102, 101, 48>>)
           /\ x = JsonObject => Result.val = Bytes(<<123, 34, 97, 34, 58, 49, 125>>)

C13_Witness ==
    /\ last.op = "formatMessage"
    /\ last.args[1] = OddHex
    /\ Returned
    /\ Result.val.len = 5

\* C14: formatMessage fails with 'Message must be a string, Uint8Array, or
\* JSON object' for every input that is not a byte buffer, a string or a
\* plain object: arrays, numbers, booleans, null, undefined, and objects
\* that are not plain (class instances, other typed arrays).
C14_FormatMessageTotal ==
    (/\ last.op = "formatMessage"
     /\ last.args[1].t \notin {"u8", "string"}
     /\ ~(last.args[1].t = "object" /\ "class" \notin DOMAIN last.args[1]))
        => (Result.kind = "throw" /\ Result.err.msg = FormatMsg)

HashLenMsg == "Message hash must be 32 bytes"

ProviderReached == Result.calls # <<>>

\* C16: in ed25519.sign and ed25519.verify a provider error whose message
\* is 'No root' reaches the caller as 'Message must be a string,
\* Uint8Array, or JSON object'; any other provider error reaches the
\* caller as the provider threw it.
C16_NoRootTranslated ==
    (adapter = "ed25519" /\ last.op \in {"sign", "verify"} /\ ProviderReached) =>
        /\ fault = "No root" =>
              (Result.kind = "throw" /\ Result.err.msg = FormatMsg)
        /\ fault = "failure" =>
              (Result.kind = "throw" /\ Result.err = ProvErr("ed25519"))
        /\ fault = "none" => Returned

C16_Witness ==
    /\ adapter = "ed25519"
    /\ last.op = "verify"
    /\ ProviderReached
    /\ fault = "No root"
    /\ Result.kind = "throw"
    /\ Result.err.msg = FormatMsg

KeyGenOps == {"generatePrivateKey", "generateKeyPair"}

\* C17 (as stated): the random source is consulted exactly when the seed
\* is undefined in generatePrivateKey / generateKeyPair; no other
\* operation draws from it.
C17_RandomOnlyWithoutSeed ==
    /\ last.op \in KeyGenOps => (Result.rng <=> last.args[1] = Undefined)
    /\ (last.op # "none" /\ last.op \notin KeyGenOps) => ~Result.rng

\* C17 (amended): the random source is consulted exactly when the seed is
\* undefined in generatePrivateKey / generateKeyPair, and by the provider in
\* every encapsulate call that reaches it; getPublicKey, sign, verify,
\* decapsulate and computeSharedSecret draw nothing.
C17_RandomWithoutSeedOrEncapsulate ==
    /\ last.op \in KeyGenOps => (Result.rng <=> last.args[1] = Undefined)
    /\ last.op = "encapsulate" => (Result.rng <=> ProviderReached)
    /\ (last.op \notin KeyGenOps \cup {"none", "encapsulate"}) => ~Result.rng

C17_Witness ==
    /\ last.op = "encapsulate"
    /\ Returned
    /\ Result.rng
    /\ isUint8Array(Get(Result.val, "sharedSecret"))

\* The provider call the last operation ended with.
ProviderCall == Result.calls[Len(Result.calls)]

\* C18: every Signing adapter takes sign(message, privateKey) and
\* verify(signature, message, publicKey): in a verify call that reaches the
\* provider, the caller's first argument is what the provider gets as the
\* signature and the second (a byte buffer) what it gets as the message; in
\* a sign call the first argument is the message and the second the key.
C18_ArgumentOrder ==
    /\ (last.op = "verify" /\ ProviderReached) =>
          /\ ProviderCall.fn = "verify"
          /\ ProviderCall.args[1] = last.args[1]
          /\ isUint8Array(last.args[2]) => ProviderCall.args[2] = last.args[2]
          /\ ProviderCall.args[3] = last.args[3]
    /\ (last.op = "sign" /\ ProviderReached) =>
          /\ ProviderCall.fn = "sign"
          /\ ProviderCall.args[1] = last.args[2]
          /\ isUint8Array(last.args[1]) => ProviderCall.args[2] = last.args[1]

\* C19: every adapter operation is synchronous: the caller gets the result
\* value or the thrown validation error directly, never a promise (pending,
\* fulfilled or rejected).
C19_Synchronous ==
    last.op # "none" => last.out.kind \in {"return", "throw"}

(***************************************************************************)
(* Concurrent callers.  A synchronous method runs to completion in one     *)
(* step.  An async generateKeyPair runs up to its first `await`, is        *)
(* suspended, and is resumed later; calls of other callers run in between. *)
(*   async generateKeyPair(seed) {                                         *)
(*       const privateKey = await this.generatePrivateKey(seed);  await1   *)
(*       const publicKey = await this.getPublicKey(privateKey);   await2   *)
(*       return { publicKey, privateKey }; }                               *)
(***************************************************************************)
ConcAdapters == {"ed25519", "secp256k1", "bls12_381_async"}
ConcSeeds == {Undefined, Invalid, Fill(31, 0)} \cup {Fill(32, b) : b \in 0..MaxFill}

\* What a step adds to the part of the call already executed.
Then(part, o) == [o EXCEPT !.calls = part.calls \o o.calls, !.rng = part.rng \/ o.rng]

InitConc ==
    /\ adapter = "concurrent"
    /\ kp = None
    /\ sg = None
    /\ last = None
    /\ fault = "none"
    /\ inflight = [c \in Callers |-> IdleCall]

\* A caller calls generateKeyPair(seed) on one of the adapters.
Invoke ==
    \E c \in Callers, a \in ConcAdapters, seed \in ConcSeeds, r \in 0..MaxFill :
        LET whole == generateKeyPair(a, seed, r)
            o == Await(generatePrivateKey(a, seed, r))
            call == [IdleCall EXCEPT !.a = a, !.seed = seed, !.r = r]
        IN /\ inflight[c].pc = "idle"
           /\ inflight' = [inflight EXCEPT ![c] =
                 IF whole.kind # "promise"
                 THEN [call EXCEPT !.pc = "settled", !.out = whole]
                 ELSE IF o.kind = "throw"
                 THEN [call EXCEPT !.pc = "settled", !.out = Async(o)]
                 ELSE [call EXCEPT !.pc = "await1", !.privateKey = o.val, !.part = o]]
           /\ UNCHANGED <<adapter, kp, sg, last, fault>>

\* A suspended call continues to its next await or to its end.
Resume ==
    \E c \in Callers :
        LET call == inflight[c]
            o == Then(call.part, Await(getPublicKey(call.a, call.privateKey)))
        IN /\ call.pc \in {"await1", "await2"}
           /\ inflight' = [inflight EXCEPT ![c] =
                 IF call.pc = "await1"
                 THEN IF o.kind = "throw"
                      THEN [call EXCEPT !.pc = "settled", !.out = Async(o)]
                      ELSE [call EXCEPT !.pc = "await2", !.part = o]
                 ELSE [call EXCEPT !.pc = "settled",
                          !.out = Async([call.part EXCEPT
                                     !.val = KeyPair(call.privateKey, call.part.val)])]]
           /\ UNCHANGED <<adapter, kp, sg, last, fault>>

\* The caller takes the outcome; it may call again.
Collect ==
    \E c \in Callers :
        /\ inflight[c].pc = "settled"
        /\ inflight' = [inflight EXCEPT ![c] = IdleCall]
        /\ UNCHANGED <<adapter, kp, sg, last, fault>>

NextConc ==
    \/ Invoke
    \/ Resume
    \/ Collect

SpecConc == InitConc /\ [][NextConc]_vars

InitNs ==
    /\ adapter \in NsAdapters
    /\ kp = None
    /\ sg = None
    /\ last = None
    /\ fault = "none"
    /\ inflight = [c \in Callers |-> IdleCall]

NextNs ==
    \/ GeneratePrivateKey
    \/ GenerateKeyPair
    \/ GetPublicKey
    \/ Sign
    \/ Verify

SpecNs == InitNs /\ [][NextNs]_vars

\* namespace.fast
FastOf(ns) == IF ns = "sphincs256" THEN "sphincs256_fast" ELSE "sphincs192_fast"
SmallOf(ns) == IF ns = "sphincs256" THEN "sphincs256_small" ELSE "sphincs192_small"

SigningOps == {"generatePrivateKey", "generateKeyPair", "getPublicKey", "sign", "verify"}

\* The outcome of a.op(args), r being the random bytes drawn if any.
Apply(a, op, args, r) ==
    CASE op = "generatePrivateKey" -> generatePrivateKey(a, args[1], r)
      [] op = "generateKeyPair" -> generateKeyPair(a, args[1], r)
      [] op = "getPublicKey" -> getPublicKey(a, args[1])
      [] op = "sign" -> sign(a, args[1], args[2], "none")
      [] op = "verify" -> verify(a, args[1], args[2], args[3], "none")

\* C21: each SPHINCS+ namespace has the same methods under .fast and
\* .small (and at top level), and every top-level call has the outcome of
\* the same call on .fast.
C21_TopLevelIsFast ==
    /\ \A ns \in Namespaces, op \in SigningOps \cup {"encapsulate", "computeSharedSecret"} :
          /\ HasMethod(FastOf(ns), op) = HasMethod(SmallOf(ns), op)
          /\ HasMethod(ns, op) = HasMethod(FastOf(ns), op)
    /\ (adapter \in Namespaces /\ last.op # "none") =>
          \E r \in 0..MaxFill : last.out = Apply(FastOf(adapter), last.op, last.args, r)

C21_Witness ==
    /\ adapter = "sphincs256"
    /\ last.op = "verify"
    /\ sg # None
    /\ last.args[1] = sg.val
    /\ Returned
    /\ Result.val = TRUE

\* The caller holds a kyber1024 key pair from generateKeyPair and an
\* encapsulation made against its public key.
HoldsEncapsulation ==
    /\ adapter = "kyber1024"
    /\ kp # None /\ kp.op = "generateKeyPair"
    /\ sg # None /\ sg.op = "encapsulate"
    /\ sg.key = Get(kp.val, "publicKey")

\* C22: for a kyber1024 key pair from generateKeyPair, encapsulate(publicKey)
\* returns {ciphertext, sharedSecret} and decapsulate(ciphertext, secretKey)
\* returns that sharedSecret; encapsulate and decapsulate throw a type error
\* without calling the provider when an argument is not a byte buffer.
C22_KemRoundTrip ==
    /\ HoldsEncapsulation =>
          /\ isUint8Array(Get(sg.val, "ciphertext"))
          /\ isUint8Array(Get(sg.val, "sharedSecret"))
    /\ (/\ HoldsEncapsulation
        /\ last.op = "decapsulate"
        /\ last.args[1] = Get(sg.val, "ciphertext")
        /\ last.args[2] = Get(kp.val, "secretKey")) =>
          (Returned /\ Result.val = sg.val.sharedSecret)
    /\ (/\ adapter = "kyber1024"
        /\ \/ last.op = "encapsulate" /\ ~isUint8Array(last.args[1])
           \/ last.op = "decapsulate"
                /\ (~isUint8Array(last.args[1]) \/ ~isUint8Array(last.args[2]))) =>
          (Threw("TypeMismatch") /\ ~ProviderReached)

C22_Witness ==
    /\ HoldsEncapsulation
    /\ last.op = "decapsulate"
    /\ last.args[1] = Get(sg.val, "ciphertext")
    /\ last.args[2] = Get(kp.val, "secretKey")
    /\ Returned
    /\ Result.val = sg.val.sharedSecret

(***************************************************************************)
(* utils/number.js.  A bigint is [t |-> "bigint", n |-> value]; the number *)
(* n + 0.5 is Frac(n).                                                     *)
(***************************************************************************)
MaxN == 9
MaxPos == 4

Big(n) == [t |-> "bigint", n |-> n]
Frac(n) == [t |-> "number", n |-> n, half |-> TRUE]

IsInteger(x) == "half" \notin DOMAIN x

\* x < k for a number or bigint x and an integer k.
Less(x, k) == x.n < k

NumErr(arg, msg) == Throw(Err("Error", arg, msg), <<>>, FALSE)

\* BigInt(pos): a RangeError for a number that is not an integer.
ToBigInt(x) ==
    IF IsInteger(x) THEN Return(Big(x.n), <<>>, FALSE)
    ELSE Throw(Err("RangeError", "", "cannot be converted to a BigInt"), <<>>, FALSE)

isPositiveBigInt(n) == n.t = "bigint" /\ n.n >= 0

\* An inRange whose upper bound is inclusive.
inRangeClosed(n, min, max) ==
    /\ isPositiveBigInt(n) /\ isPositiveBigInt(min) /\ isPositiveBigInt(max)
    /\ min.n <= n.n /\ n.n <= max.n

inRange(n, min, max) ==
    /\ isPositiveBigInt(n) /\ isPositiveBigInt(min) /\ isPositiveBigInt(max)
    /\ min.n <= n.n /\ n.n < max.n

assertInRange(name, n, min, max) ==
    IF ~inRange(n, min, max)
    THEN NumErr(name, "must be in range")
    ELSE Return(Undefined, <<>>, FALSE)

\* let len = 0; while (n > 0n) { n >>= 1n; len++; }
RECURSIVE Shifts(_)
Shifts(n) == IF n > 0 THEN 1 + Shifts(n \div 2) ELSE 0

\* A bitLength whose loop stops one step early.
bitLengthShort(n) ==
    IF ~isPositiveBigInt(n) THEN NumErr("n", "Input must be a positive bigint")
    ELSE Return(Num(IF n.n > 1 THEN Shifts(n.n) - 1 ELSE Shifts(n.n)), <<>>, FALSE)

bitLength(n) ==
    IF ~isPositiveBigInt(n) THEN NumErr("n", "Input must be a positive bigint")
    ELSE Return(Num(Shifts(n.n)), <<>>, FALSE)

\* A getBit that does not look at the sign of the position.
getBitUnchecked(n, pos) ==
    IF ~isPositiveBigInt(n) THEN NumErr("n", "First argument must be a positive bigint")
    ELSE IF pos.t # "number" THEN NumErr("pos", "Position must be a non-negative number")
    ELSE IF ~IsInteger(pos) THEN ToBigInt(pos)
    ELSE IF pos.n < 0 THEN Return(Big(0), <<>>, FALSE)
    ELSE Return(Big((n.n \div (2 ^ pos.n)) % 2), <<>>, FALSE)

getBit(n, pos) ==
    IF ~isPositiveBigInt(n) THEN NumErr("n", "First argument must be a positive bigint")
    ELSE IF pos.t # "number" \/ Less(pos, 0)
    THEN NumErr("pos", "Position must be a non-negative number")
    ELSE Bind(ToBigInt(pos), LAMBDA p :
         Return(Big((n.n \div (2 ^ p.n)) % 2), <<>>, FALSE))

\* A setBit that flips the bit when value is true.
setBitToggle(n, pos, value) ==
    IF ~isPositiveBigInt(n) THEN NumErr("n", "First argument must be a positive bigint")
    ELSE IF pos.t # "number" \/ Less(pos, 0)
    THEN NumErr("pos", "Position must be a non-negative number")
    ELSE IF value.t # "boolean" THEN NumErr("value", "Value must be a boolean")
    ELSE Bind(ToBigInt(pos), LAMBDA p :
         LET mask == 2 ^ p.n
             set == (n.n \div mask) % 2 = 1
         IN IF value.b
            THEN Return(Big(IF set THEN n.n - mask ELSE n.n + mask), <<>>, FALSE)
            ELSE Return(Big(IF set THEN n.n - mask ELSE n.n), <<>>, FALSE))

setBit(n, pos, value) ==
    IF ~isPositiveBigInt(n) THEN NumErr("n", "First argument must be a positive bigint")
    ELSE IF pos.t # "number" \/ Less(pos, 0)
    THEN NumErr("pos", "Position must be a non-negative number")
    ELSE IF value.t # "boolean" THEN NumErr("value", "Value must be a boolean")
    ELSE Bind(ToBigInt(pos), LAMBDA p :
         LET mask == 2 ^ p.n
             set == (n.n \div mask) % 2 = 1
         IN IF value.b
            THEN Return(Big(IF set THEN n.n ELSE n.n + mask), <<>>, FALSE)    \* n | mask
            ELSE Return(Big(IF set THEN n.n - mask ELSE n.n), <<>>, FALSE))   \* n & ~mask

bitMask(n) ==
    IF n.t # "number" \/ Less(n, 1) THEN NumErr("n", "Input must be a positive number")
    ELSE Bind(ToBigInt(n), LAMBDA k : Return(Big(2 ^ k.n - 1), <<>>, FALSE))

\* Arguments the callers of the numeric utilities try.
BigInts == {Big(n) : n \in -2..MaxN}
NotBigInts == {Num(5), Frac(1), Undefined}
Positions == {Num(p) : p \in -1..MaxPos} \cup {Frac(-1), Frac(0), Frac(1), Big(1), Undefined}
Flags == {Bool(TRUE), Bool(FALSE), Num(1)}
Bounds == {Big(n) : n \in -1..3} \cup {Num(1), Undefined}

InitNum ==
    /\ adapter = "number"
    /\ kp = None
    /\ sg = None
    /\ last = None
    /\ fault = "none"
    /\ inflight = [c \in Callers |-> IdleCall]

BitLength ==
    \E n \in BigInts \cup NotBigInts :
        /\ last' = Call("bitLength", n, Undefined, Undefined, bitLength(n))
        /\ UNCHANGED <<adapter, kp, sg, fault, inflight>>

GetBit ==
    \E n \in BigInts \cup NotBigInts, pos \in Positions :
        /\ last' = Call("getBit", n, pos, Undefined, getBit(n, pos))
        /\ UNCHANGED <<adapter, kp, sg, fault, inflight>>

SetBit ==
    \E n \in BigInts \cup NotBigInts, pos \in Positions, value \in Flags :
        /\ last' = Call("setBit", n, pos, value, setBit(n, pos, value))
        /\ UNCHANGED <<adapter, kp, sg, fault, inflight>>

BitMask ==
    \E n \in Positions :
        /\ last' = Call("bitMask", n, Undefined, Undefined, bitMask(n))
        /\ UNCHANGED <<adapter, kp, sg, fault, inflight>>

\* inRange returns a boolean; it is recorded as the outcome of the call.
InRange ==
    \E n \in Bounds, min \in Bounds, max \in Bounds :
        /\ last' = Call("inRange", n, min, max, Return(Bool(inRange(n, min, max)), <<>>, FALSE))
        /\ UNCHANGED <<adapter, kp, sg, fault, inflight>>

AssertInRange ==
    \E n \in Bounds, min \in Bounds, max \in Bounds :
        /\ last' = Call("assertInRange", n, min, max, assertInRange("value", n, min, max))
        /\ UNCHANGED <<adapter, kp, sg, fault, inflight>>

NextNum ==
    \/ BitLength
    \/ GetBit
    \/ SetBit
    \/ BitMask
    \/ InRange
    \/ AssertInRange

SpecNum == InitNum /\ [][NextNum]_vars

BitOps == {"bitLength", "getBit", "setBit", "bitMask"}

\* The numeric arguments of the last call: the value and the bit position.
NumericArgs ==
    {last.args[i] : i \in IF last.op \in {"getBit", "setBit"} THEN {1, 2} ELSE {1}}

NegativeOrFraction(x) == x.t \in {"bigint", "number"} /\ (x.n < 0 \/ ~IsInteger(x))

\* Every argument is a non-negative integer of the documented type.
WellTyped ==
    /\ last.args[1].t = (IF last.op = "bitMask" THEN "number" ELSE "bigint")
    /\ last.op \in {"getBit", "setBit"} => last.args[2].t = "number"
    /\ last.op = "setBit" => last.args[3].t = "boolean"
    /\ \A x \in NumericArgs : ~NegativeOrFraction(x)

\* C23 (as stated): bitLength, getBit, setBit and bitMask throw, returning
\* nothing, when a numeric argument is negative or not an integer, and
\* never reject non-negative integer arguments.
C23_NumericContract ==
    last.op \in BitOps =>
        /\ (\E x \in NumericArgs : NegativeOrFraction(x)) => Result.kind = "throw"
        /\ WellTyped => Returned

\* C23 (amended): as above, except that bitMask also rejects 0: it accepts
\* the integers n >= 1 only.
C23_NumericContractFromOne ==
    last.op \in BitOps =>
        /\ (\E x \in NumericArgs : NegativeOrFraction(x)) => Result.kind = "throw"
        /\ (WellTyped /\ ~(last.op = "bitMask" /\ last.args[1].n = 0)) => Returned
        /\ (last.op = "bitMask" /\ last.args[1] = Num(0)) => Result.kind = "throw"

C23_Witness ==
    /\ last.op = "setBit"
    /\ last.args[2] = Frac(1)
    /\ isPositiveBigInt(last.args[1])
    /\ last.args[3].t = "boolean"
    /\ Result.kind = "throw"

\* C26: bitLength(n) returns, for every non-negative bigint n, the least
\* len >= 0 with n < 2^len; bitMask(k) returns 2^k - 1 for k >= 1, so that
\* bitLength(bitMask(k)) = k.
C26_BitLengthLeast ==
    /\ (last.op = "bitLength" /\ isPositiveBigInt(last.args[1])) =>
           /\ Returned
           /\ Result.val.t = "number"
           /\ Result.val.n >= 0
           /\ last.args[1].n < 2 ^ Result.val.n
           /\ \A len \in 0..(Result.val.n - 1) : last.args[1].n >= 2 ^ len
    /\ (last.op = "bitMask" /\ last.args[1].t = "number"
            /\ IsInteger(last.args[1]) /\ last.args[1].n >= 1) =>
           /\ Returned
           /\ Result.val = Big(2 ^ last.args[1].n - 1)
           /\ bitLength(Result.val).val = Num(last.args[1].n)

C26_Witness ==
    /\ last.op = "bitMask"
    /\ last.args[1] = Num(3)
    /\ Result.val = Big(7)

\* C27: after setBit(n, p, v) returns m, getBit(m, p) is 1n when v is true
\* and 0n when v is false, every other bit of m equals that bit of n,
\* setBit(m, p, v) is m again, and m is not negative.
C27_SetBitGetBit ==
    (last.op = "setBit" /\ Returned) =>
        LET n == last.args[1]
            p == last.args[2]
            v == last.args[3]
            m == Result.val
        IN /\ getBit(m, p).val = Big(IF v.b THEN 1 ELSE 0)
           /\ \A q \in 0..(MaxPos + 4) :
                  q # p.n => getBit(m, Num(q)).val = getBit(n, Num(q)).val
           /\ setBit(m, p, v).val = m
           /\ m.t = "bigint" /\ m.n >= 0

C27_Witness ==
    /\ last.op = "setBit"
    /\ last.args = <<Big(5), Num(0), Bool(FALSE)>>
    /\ Result.val = Big(4)

\* C28: inRange(n, min, max) is true exactly when all three are non-negative
\* bigints and min <= n < max; assertInRange throws exactly when inRange is
\* false and otherwise returns undefined.
C28_InRange ==
    LET n == last.args[1]
        min == last.args[2]
        max == last.args[3]
        within == /\ \A x \in {n, min, max} : x.t = "bigint" /\ x.n >= 0
                  /\ min.n <= n.n
                  /\ n.n < max.n
    IN /\ last.op = "inRange" => (Returned /\ Result.val = Bool(within))
       /\ last.op = "assertInRange" =>
              /\ Result.kind = "throw" <=> ~inRange(n, min, max)
              /\ Result.kind = "throw" <=> ~within
              /\ Result.kind # "throw" => (Returned /\ Result.val = Undefined)

C28_Witness ==
    /\ last.op = "assertInRange"
    /\ last.args = <<Big(3), Big(0), Big(3)>>
    /\ Result.kind = "throw"

(***************************************************************************)
(* utils/bytes.js and utils/hex.js, as their tests (bytes.spec.js and the  *)
(* hex tests) and the specification describe them.  The encoders are only  *)
(* applied to values that fit into the requested length.                   *)
(***************************************************************************)
MaxBytes == 2

Reverse(b) == [i \in 1..Len(b) |-> b[Len(b) + 1 - i]]

BEDigits(n, len) == [i \in 1..len |-> (n \div (256 ^ (len - i))) % 256]

RECURSIVE BEValue(_)
BEValue(b) ==
    IF b = <<>> THEN 0 ELSE 256 * BEValue(SubSeq(b, 1, Len(b) - 1)) + b[Len(b)]

BytesArgsErr(n, length) ==
    IF n.t \notin {"number", "bigint"}
    THEN NumErr("n", "Input must be a number or bigint")
    ELSE NumErr("length", "Length must be a positive number")

BytesArgsOk(n, length) ==
    /\ n.t \in {"number", "bigint"}
    /\ length.t = "number" /\ ~Less(length, 1)

numberToBytesBE(n, length) ==
    IF ~BytesArgsOk(n, length) THEN BytesArgsErr(n, length)
    ELSE Return(Bytes(BEDigits(n.n, length.n)), <<>>, FALSE)

\* A little-endian encoder that writes the bytes in big-endian order.
numberToBytesLEForward(n, length) ==
    IF ~BytesArgsOk(n, length) THEN BytesArgsErr(n, length)
    ELSE Return(Bytes(BEDigits(n.n, length.n)), <<>>, FALSE)

numberToBytesLE(n, length) ==
    IF ~BytesArgsOk(n, length) THEN BytesArgsErr(n, length)
    ELSE Return(Bytes(Reverse(BEDigits(n.n, length.n))), <<>>, FALSE)

bytesToNumberBE(bytes) ==
    IF ~isUint8Array(bytes) THEN NumErr("bytes", "Input must be a Uint8Array")
    ELSE Return(Big(BEValue(bytes.c[2])), <<>>, FALSE)

bytesToNumberLE(bytes) ==
    IF ~isUint8Array(bytes) THEN NumErr("bytes", "Input must be a Uint8Array")
    ELSE Return(Big(BEValue(Reverse(bytes.c[2]))), <<>>, FALSE)

HexDigit(v) ==
    CASE v = 0 -> "0" [] v = 1 -> "1" [] v = 2 -> "2" [] v = 3 -> "3"
      [] v = 4 -> "4" [] v = 5 -> "5" [] v = 6 -> "6" [] v = 7 -> "7"
      [] v = 8 -> "8" [] v = 9 -> "9" [] v = 10 -> "a" [] v = 11 -> "b"
      [] v = 12 -> "c" [] v = 13 -> "d" [] v = 14 -> "e" [] v = 15 -> "f"

\* A toHex that writes a byte below 16 as one digit.
toHexUnpadded(bytes) ==
    IF ~isUint8Array(bytes) THEN NumErr("bytes", "Input must be a Uint8Array")
    ELSE LET b == bytes.c[2]
             RECURSIVE Digits(_)
             Digits(i) ==
                 IF i > Len(b) THEN <<>>
                 ELSE (IF b[i] < 16 THEN <<HexDigit(b[i])>>
                       ELSE <<HexDigit(b[i] \div 16), HexDigit(b[i] % 16)>>) \o Digits(i + 1)
         IN Return(Str(Digits(1)), <<>>, FALSE)

toHex(bytes) ==
    IF ~isUint8Array(bytes) THEN NumErr("bytes", "Input must be a Uint8Array")
    ELSE LET b == bytes.c[2]
         IN Return(Str([i \in 1..(2 * Len(b)) |->
                           IF i % 2 = 1 THEN HexDigit(b[(i + 1) \div 2] \div 16)
                           ELSE HexDigit(b[i \div 2] % 16)]), <<>>, FALSE)

\* fromHex with its argument check (fromHex above is the decoding alone).
hex_fromHex(hex) ==
    IF ~isHexString(hex) THEN NumErr("hex", "Input must be a hex string")
    ELSE Return(fromHex(hex.s), <<>>, FALSE)

\* Values below 256^len that the encoders are tried on.
Samples(len) ==
    {n \in {0, 1, 18, 255} \cup UNION {{256 ^ k - 1, 256 ^ k, 256 ^ k + 52} : k \in 1..len} :
        n < 256 ^ len}
Lengths == 1..MaxBytes
EncodeInputs ==
    {<<Num(n), Num(len)>> : n \in Samples(MaxBytes), len \in Lengths}
    \cup {<<Big(n), Num(len)>> : n \in Samples(MaxBytes), len \in Lengths}
ByteValues == {0, 10, 255}
Buffers == {Bytes(b) : b \in UNION {[1..n -> ByteValues] : n \in 0..MaxBytes}}
NotBuffers == {Str(<<"1", "2">>), Num(123), Null, Undefined, Arr(0), Obj(0, <<"{", "}">>)}
NotStrings == {Num(123), Null, Undefined, Obj(0, <<"{", "}">>)}

InitBytes ==
    /\ adapter = "bytes"
    /\ kp = None
    /\ sg = None
    /\ last = None
    /\ fault = "none"
    /\ inflight = [c \in Callers |-> IdleCall]

NumberToBytesBE ==
    \E in \in {a \in EncodeInputs : a[1].n < 256 ^ a[2].n}
              \cup {<<Str(<<"1">>), Num(2)>>, <<Num(123), Num(0)>>,
                    <<Num(123), Num(-1)>>, <<Num(123), Str(<<"2">>)>>} :
        /\ last' = Call("numberToBytesBE", in[1], in[2], Undefined, numberToBytesBE(in[1], in[2]))
        /\ UNCHANGED <<adapter, kp, sg, fault, inflight>>

NumberToBytesLE ==
    \E in \in {a \in EncodeInputs : a[1].n < 256 ^ a[2].n}
              \cup {<<Str(<<"1">>), Num(2)>>, <<Num(123), Num(0)>>,
                    <<Num(123), Num(-1)>>, <<Num(123), Str(<<"2">>)>>} :
        /\ last' = Call("numberToBytesLE", in[1], in[2], Undefined, numberToBytesLE(in[1], in[2]))
        /\ UNCHANGED <<adapter, kp, sg, fault, inflight>>

BytesToNumberBE ==
    \E bytes \in (Buffers \ {Bytes(<<>>)}) \cup NotBuffers :
        /\ last' = Call("bytesToNumberBE", bytes, Undefined, Undefined, bytesToNumberBE(bytes))
        /\ UNCHANGED <<adapter, kp, sg, fault, inflight>>

BytesToNumberLE ==
    \E bytes \in (Buffers \ {Bytes(<<>>)}) \cup NotBuffers :
        /\ last' = Call("bytesToNumberLE", bytes, Undefined, Undefined, bytesToNumberLE(bytes))
        /\ UNCHANGED <<adapter, kp, sg, fault, inflight>>

ToHex ==
    \E bytes \in Buffers \cup NotBuffers :
        /\ last' = Call("toHex", bytes, Undefined, Undefined, toHex(bytes))
        /\ UNCHANGED <<adapter, kp, sg, fault, inflight>>

FromHex ==
    \E hex \in {Str(s) : s \in Strings} \cup {OddHex} \cup NotStrings :
        /\ last' = Call("fromHex", hex, Undefined, Undefined, hex_fromHex(hex))
        /\ UNCHANGED <<adapter, kp, sg, fault, inflight>>

NextBytes ==
    \/ NumberToBytesBE
    \/ NumberToBytesLE
    \/ BytesToNumberBE
    \/ BytesToNumberLE
    \/ ToHex
    \/ FromHex

SpecBytes == InitBytes /\ [][NextBytes]_vars

\* C24: for len >= 1 and 0 <= n < 256^len the big-endian and the
\* little-endian encoding of n have exactly len bytes, decode to n again,
\* and the little-endian bytes are the big-endian bytes reversed.
C24_EncodingRoundTrip ==
    (/\ last.op \in {"numberToBytesBE", "numberToBytesLE"}
     /\ BytesArgsOk(last.args[1], last.args[2])
     /\ IsInteger(last.args[2])
     /\ last.args[1].n >= 0 /\ last.args[1].n < 256 ^ last.args[2].n) =>
        LET n == last.args[1]
            len == last.args[2]
            be == numberToBytesBE(n, len)
            le == numberToBytesLE(n, len)
        IN /\ Returned
           /\ Result = (IF last.op = "numberToBytesBE" THEN be ELSE le)
           /\ isUint8Array(Result.val) /\ Result.val.len = len.n
           /\ Len(Result.val.c[2]) = len.n
           /\ bytesToNumberBE(be.val) = Return(Big(n.n), <<>>, FALSE)
           /\ bytesToNumberLE(le.val) = Return(Big(n.n), <<>>, FALSE)
           /\ le.val.c[2] = Reverse(be.val.c[2])

C24_Witness ==
    /\ last.op = "numberToBytesLE"
    /\ last.args = <<Num(308), Num(2), Undefined>>
    /\ Result.val = Bytes(<<52, 1>>)

\* C25: fromHex(toHex(b)) = b for every byte buffer b, the hex of the empty
\* buffer being the empty string; toHex throws 'Input must be a Uint8Array'
\* for a non-buffer; fromHex throws 'Input must be a hex string' for a
\* non-string, a string of odd length, or one with a non-hex character.
C25_HexRoundTrip ==
    /\ last.op = "toHex" =>
           IF isUint8Array(last.args[1])
           THEN /\ Returned
                /\ Result.val.t = "string"
                /\ hex_fromHex(Result.val) = Return(last.args[1], <<>>, FALSE)
                /\ last.args[1].len = 0 => Result.val = Str(<<>>)
           ELSE /\ Result.kind = "throw"
                /\ Result.err.msg = "Input must be a Uint8Array"
    /\ last.op = "fromHex" =>
           ((\/ last.args[1].t # "string"
             \/ last.args[1].len % 2 = 1
             \/ \E i \in 1..last.args[1].len : last.args[1].s[i] \notin HexChars)
            => /\ Result.kind = "throw"
               /\ Result.err.msg = "Input must be a hex string")

C25_Witness ==
    /\ last.op = "toHex"
    /\ last.args[1] = Bytes(<<10, 255>>)
    /\ Result.val = Str(<<"0", "a", "f", "f">>)

(***************************************************************************)
(* isValidPrivateKey / isValidPublicKey of secp256k1, p256 and p384.  What *)
(* the provider answers for a given buffer is the input `ans`.             *)
(***************************************************************************)
ValidityAdapters == {"secp256k1", "p256", "p384"}
Answers == {"true", "false", "throw"}

\* noble.utils.isValidPrivateKey(privateKey) / secp.utils.isValidSecretKey
ProvIsValidPrivateKey(alg, privateKey, ans) ==
    LET call == <<ProvCall("isValidPrivateKey", alg, <<privateKey>>)>>
    IN IF ans = "throw" THEN Throw(ProvErr(alg), call, FALSE)
       ELSE Return(Bool(ans = "true"), call, FALSE)

\* ProjectivePoint.fromHex(publicKey) / Point.fromBytes(publicKey): a point,
\* or an exception for bytes that are not the encoding of one.
ProvPointFromBytes(alg, publicKey, ans) ==
    LET call == <<ProvCall("fromHex", alg, <<publicKey>>)>>
    IN IF ans = "true"
       THEN Return([t |-> "object", class |-> "Point", alg |-> alg], call, FALSE)
       ELSE Throw(ProvErr(alg), call, FALSE)

\* try { return ...; } catch { return false; }
CatchFalse(o) == IF o.kind = "throw" THEN Return(Bool(FALSE), o.calls, o.rng) ELSE o

curve_isValidPrivateKey(alg, n, privateKey, ans) ==
    IF ~isUint8Array(privateKey) THEN Return(Bool(FALSE), <<>>, FALSE)
    ELSE IF privateKey.len # n THEN Return(Bool(FALSE), <<>>, FALSE)
    ELSE CatchFalse(ProvIsValidPrivateKey(alg, privateKey, ans))

curve_isValidPublicKey(alg, publicKey, ans) ==
    IF ~isUint8Array(publicKey) THEN Return(Bool(FALSE), <<>>, FALSE)
    ELSE CatchFalse(Bind(ProvPointFromBytes(alg, publicKey, ans), LAMBDA point :
             Return(Bool(Get(point, "class") = "Point"), <<>>, FALSE)))

\* An isValidPrivateKey without the try / catch around the provider call.
isValidPrivateKeyUncaught(a, privateKey, ans) ==
    IF ~isUint8Array(privateKey) THEN Return(Bool(FALSE), <<>>, FALSE)
    ELSE IF privateKey.len # (IF a = "p384" THEN 48 ELSE 32)
    THEN Return(Bool(FALSE), <<>>, FALSE)
    ELSE ProvIsValidPrivateKey(a, privateKey, ans)

isValidPrivateKey(a, privateKey, ans) ==
    CASE a = "secp256k1" -> curve_isValidPrivateKey("secp256k1", 32, privateKey, ans)
      [] a = "p256" -> curve_isValidPrivateKey("p256", 32, privateKey, ans)
      [] a = "p384" -> curve_isValidPrivateKey("p384", 48, privateKey, ans)

isValidPublicKey(a, publicKey, ans) == curve_isValidPublicKey(a, publicKey, ans)

\* Values a caller may ask about: buffers of the private-key and public-key
\* sizes, of other sizes, and values that are no buffers.
KeyCandidates(a) ==
    {Fill(n, b) : n \in {0, ProvSeedLen(a) - 1, ProvSeedLen(a), ProvSeedLen(a) + 1,
                         ProvPkLen(a)}, b \in 0..MaxFill}
        \cup {Undefined, Null, Num(123), Arr(ProvSeedLen(a)),
              Str(<<"0", "1">>), Obj(0, <<"{", "}">>)}

\* The provider throws or refuses what it cannot decode as a key.
AnswersFor(a, key, size) ==
    IF isUint8Array(key) /\ key.len = size THEN Answers ELSE {"false", "throw"}

InitValid ==
    /\ adapter \in ValidityAdapters
    /\ kp = None
    /\ sg = None
    /\ last = None
    /\ fault = "none"
    /\ inflight = [c \in Callers |-> IdleCall]

IsValidPrivateKey ==
    \E privateKey \in KeyCandidates(adapter) :
        \E ans \in AnswersFor(adapter, privateKey, ProvSeedLen(adapter)) :
            /\ last' = Call("isValidPrivateKey", privateKey, Undefined, Undefined,
                            isValidPrivateKey(adapter, privateKey, ans))
            /\ fault' = ans
            /\ UNCHANGED <<adapter, kp, sg, inflight>>

IsValidPublicKey ==
    \E publicKey \in KeyCandidates(adapter) :
        \E ans \in AnswersFor(adapter, publicKey, ProvPkLen(adapter)) \ {"false"} :
            /\ last' = Call("isValidPublicKey", publicKey, Undefined, Undefined,
                            isValidPublicKey(adapter, publicKey, ans))
            /\ fault' = ans
            /\ UNCHANGED <<adapter, kp, sg, inflight>>

NextValid ==
    \/ IsValidPrivateKey
    \/ IsValidPublicKey

SpecValid == InitValid /\ [][NextValid]_vars

\* C29: isValidPrivateKey and isValidPublicKey of secp256k1, p256 and p384
\* always return a boolean and never throw; the answer is false for a value
\* that is not a Uint8Array, for a private key of another length than the
\* curve's, and whenever the provider throws.
C29_ValidityTotal ==
    last.op \in {"isValidPrivateKey", "isValidPublicKey"} =>
        /\ Returned
        /\ last.out.kind = "return"
        /\ Result.val \in {Bool(TRUE), Bool(FALSE)}
        /\ ~isUint8Array(last.args[1]) => Result.val = Bool(FALSE)
        /\ (/\ last.op = "isValidPrivateKey"
            /\ isUint8Array(last.args[1])
            /\ last.args[1].len # (IF adapter = "p384" THEN 48 ELSE 32))
               => Result.val = Bool(FALSE)
        /\ fault = "throw" => Result.val = Bool(FALSE)

C29_Witness ==
    /\ last.op = "isValidPrivateKey"
    /\ adapter = "p384"
    /\ last.args[1] = Fill(48, 1)
    /\ fault = "throw"
    /\ Result.calls # <<>>
    /\ Result.val = Bool(FALSE)

(***************************************************************************)
(* Object identity.  The buffers that exist are the elements of a heap, a  *)
(* sequence; a buffer value carries the index of its object as `id`.  The  *)
(* call record keeps the heap before and after the call.                   *)
(***************************************************************************)
Own(v, id) == [f \in DOMAIN v \cup {"id"} |-> IF f = "id" THEN id ELSE v[f]]

\* The caller's argument as an object of the heap (a value that is not a
\* buffer has no identity the adapters could return).
Given(v) == IF isUint8Array(v) THEN Own(v, 1) ELSE v
HeapOf(v) == IF isUint8Array(v) THEN <<v>> ELSE <<>>

\* The awaited outcome of a call that started on heap h: a buffer that was
\* created during the call (random bytes, a decoded or encoded string) is a
\* new object; nothing in generatePrivateKey or formatMessage stores into
\* an existing one.
Settle(op, arg, h, o) ==
    LET w == Await(o)
        fresh == w.kind = "return" /\ isUint8Array(w.val) /\ "id" \notin DOMAIN w.val
    IN [op |-> op, args |-> <<arg, Undefined, Undefined>>,
        out |-> IF fresh THEN [w EXCEPT !.val = Own(w.val, Len(h) + 1)] ELSE w,
        before |-> h,
        after |-> IF fresh THEN Append(h, w.val) ELSE h]

InitAlias ==
    /\ adapter \in Adapters
    /\ kp = None
    /\ sg = None
    /\ last = None
    /\ fault = "none"
    /\ inflight = [c \in Callers |-> IdleCall]

GeneratePrivateKeyOf ==
    \E seed \in Seeds(adapter), r \in 0..MaxFill :
        /\ HasMethod(adapter, "generatePrivateKey")
        /\ last' = Settle("generatePrivateKey", Given(seed), HeapOf(seed),
                          generatePrivateKey(adapter, Given(seed), r))
        /\ UNCHANGED <<adapter, kp, sg, fault, inflight>>

FormatMessageOf ==
    \E message \in FormatInputs :
        /\ last' = Settle("formatMessage", Given(message), HeapOf(message),
                          formatMessage(Given(message)))
        /\ UNCHANGED <<adapter, kp, sg, fault, inflight>>

NextAlias ==
    \/ GeneratePrivateKeyOf
    \/ FormatMessageOf

SpecAlias == InitAlias /\ [][NextAlias]_vars

====
